---- MODULE Spec2Model ----
(***************************************************************************)
(* The agent dispatch pipeline of app/llm_agent.py (run_agent): model call, *)
(* response assembly, instruction parsing, tool dispatch.                   *)
(*                                                                          *)
(* Text is a sequence of characters.  A character is an atom written as a   *)
(* TLA+ string: the JSON punctuation, the quote, the backslash, blanks, and *)
(* letter runs such as "tool" that stand for the letters of a word.         *)
(* A Python value decoded from JSON is a record [t |-> <type name>, v |->   *)
(* <payload>], t being the name type(x).__name__ gives.                     *)
(***************************************************************************)
EXTENDS Integers, Sequences, FiniteSets, TLC

\* ------------------------------------------------------------------ bounds

\* How many places the model's answer is cut at to make the streamed fragments.
MaxCuts == 1

\* How many extra lines (blank, undecodable, without a fragment) are interleaved.
MaxNoise == 1

\* ------------------------------------------------------------- characters

QUOTE == "\""

BACKSLASH == "\\"

LF == "\n"

\* str.strip() with no argument removes blanks; the alphabet holds two.
Whitespace == {" ", LF}

\* The characters JSON allows between tokens.
JsonWhitespace == {" ", LF}

\* Characters a strict JSON string may not hold unescaped.
ControlChars == {LF}

Digits == {"0", "1", "2"}

DigitValue(c) ==
    CASE c = "0" -> 0
      [] c = "1" -> 1
      [] c = "2" -> 2

\* --------------------------------------------------------- str operations

RECURSIVE lstrip(_)
lstrip(s) ==
    IF s # <<>> /\ Head(s) \in Whitespace THEN lstrip(Tail(s)) ELSE s

RECURSIVE rstrip(_)
rstrip(s) ==
    IF s # <<>> /\ s[Len(s)] \in Whitespace
    THEN rstrip(SubSeq(s, 1, Len(s) - 1))
    ELSE s

\* str.strip()
strip(s) == rstrip(lstrip(s))

\* str.rstrip("/")
RECURSIVE rstrip_slash(_)
rstrip_slash(s) ==
    IF s # <<>> /\ s[Len(s)] = "/"
    THEN rstrip_slash(SubSeq(s, 1, Len(s) - 1))
    ELSE s

\* str.splitlines(): the lines between line feeds, no empty last line.
\* The index of the first line feed of s at or after i, Len(s) + 1 if
\* there is none.
line_end(s, i) ==
    IF \E j \in i..Len(s) : s[j] = LF
    THEN CHOOSE j \in i..Len(s) : s[j] = LF /\ \A k \in i..(j - 1) : s[k] # LF
    ELSE Len(s) + 1

\* The lines of s from the one that starts at i.
RECURSIVE splitlines_from(_, _)
splitlines_from(s, i) ==
    IF i > Len(s) THEN <<>>
    ELSE <<SubSeq(s, i, line_end(s, i) - 1)>> \o splitlines_from(s, line_end(s, i) + 1)

splitlines(s) == splitlines_from(s, 1)

\* "".join(parts) for parts that are all str
RECURSIVE join(_)
join(parts) ==
    IF parts = <<>> THEN <<>> ELSE Head(parts) \o join(Tail(parts))

\* sub in s
Contains(s, sub) ==
    \E i \in 0..(Len(s) - Len(sub)) : SubSeq(s, i + 1, i + Len(sub)) = sub

\* ------------------------------------------------------------ json.loads

JNone == [t |-> "NoneType", v |-> <<>>]

JBool(b) == [t |-> "bool", v |-> b]

JInt(n) == [t |-> "int", v |-> n]

\* json.loads accepts the literal NaN and gives float('nan')
JNaN == [t |-> "float", v |-> "nan"]

JStr(s) == [t |-> "str", v |-> s]

JList(a) == [t |-> "list", v |-> a]

JDict(f) == [t |-> "dict", v |-> f]

\* The decoder's failure: json.JSONDecodeError
DecodeError == [ok |-> FALSE]

Decoded(val, pos) == [ok |-> TRUE, val |-> val, pos |-> pos]

RECURSIVE skip_ws(_, _)
skip_ws(s, i) ==
    IF i <= Len(s) /\ s[i] \in JsonWhitespace THEN skip_ws(s, i + 1) ELSE i

\* The backslashes that stand directly before position j, from i on.
backslashes_before(s, i, j) ==
    LET k == CHOOSE k \in (i - 1)..(j - 1) :
                 /\ k = i - 1 \/ s[k] # BACKSLASH
                 /\ \A m \in (k + 1)..(j - 1) : s[m] = BACKSLASH
    IN  j - 1 - k

\* Position j is the second character of an escape of the string begun at i.
escaped_at(s, i, j) == backslashes_before(s, i, j) % 2 = 1

\* The scanner stops at j: the end of the text, the closing quote, an escape
\* it does not know, or a raw control character.
string_stops(s, i, j) ==
    \/ j > Len(s)
    \/ /\ ~escaped_at(s, i, j)
       /\ \/ s[j] = QUOTE
          \/ s[j] \in ControlChars
          \/ /\ s[j] = BACKSLASH
             /\ \/ j + 1 > Len(s)
                \/ s[j + 1] \notin {QUOTE, BACKSLASH, "n"}

string_end(s, i) ==
    CHOOSE j \in i..(Len(s) + 1) :
        string_stops(s, i, j) /\ \A k \in i..(j - 1) : ~string_stops(s, i, k)

\* The character position j stands for: \n is a line feed, \" and \\ the
\* character itself.
unescaped(s, i, j) ==
    IF escaped_at(s, i, j) /\ s[j] = "n" THEN LF ELSE s[j]

\* The string after an opening quote at i - 1: to the closing quote, with the
\* escapes \" \\ and \n decoded; a raw control character is an error.
scan_string(s, i, acc) ==
    LET e == string_end(s, i)
        kept == SelectSeq([k \in 1..(e - i) |-> i + k - 1],
                          LAMBDA j : escaped_at(s, i, j) \/ s[j] # BACKSLASH)
    IN  IF e <= Len(s) /\ s[e] = QUOTE
        THEN Decoded(acc \o [k \in 1..Len(kept) |-> unescaped(s, i, kept[k])],
                     e + 1)
        ELSE DecodeError

\* An integer: 0, or a run of digits not starting with 0.
RECURSIVE scan_digits(_, _, _)
scan_digits(s, i, n) ==
    IF i <= Len(s) /\ s[i] \in Digits
    THEN scan_digits(s, i + 1, 10 * n + DigitValue(s[i]))
    ELSE Decoded(JInt(n), i)

scan_number(s, i) ==
    IF s[i] = "0" THEN Decoded(JInt(0), i + 1) ELSE scan_digits(s, i, 0)

RECURSIVE scan_once(_, _)
RECURSIVE scan_members(_, _, _)
RECURSIVE scan_elements(_, _, _)

\* One value starting at i (no leading blanks skipped).
scan_once(s, i) ==
    IF i > Len(s) THEN DecodeError
    ELSE IF s[i] = QUOTE
         THEN LET r == scan_string(s, i + 1, <<>>)
              IN  IF r.ok THEN Decoded(JStr(r.val), r.pos) ELSE DecodeError
    ELSE IF s[i] = "{"
         THEN LET j == skip_ws(s, i + 1)
              IN  IF j <= Len(s) /\ s[j] = "}"
                  THEN Decoded(JDict(<<>>), j + 1)
                  ELSE scan_members(s, j, <<>>)
    ELSE IF s[i] = "["
         THEN LET j == skip_ws(s, i + 1)
              IN  IF j <= Len(s) /\ s[j] = "]"
                  THEN Decoded(JList(<<>>), j + 1)
                  ELSE scan_elements(s, j, <<>>)
    ELSE IF s[i] = "null" THEN Decoded(JNone, i + 1)
    ELSE IF s[i] = "true" THEN Decoded(JBool(TRUE), i + 1)
    ELSE IF s[i] = "false" THEN Decoded(JBool(FALSE), i + 1)
    ELSE IF s[i] = "NaN" THEN Decoded(JNaN, i + 1)
    ELSE IF s[i] \in Digits THEN scan_number(s, i)
    ELSE DecodeError

\* The members of an object from the key at i on; a repeated key keeps its
\* last value.
scan_members(s, i, acc) ==
    IF i > Len(s) \/ s[i] # QUOTE THEN DecodeError
    ELSE LET k == scan_string(s, i + 1, <<>>)
         IN  IF ~k.ok THEN DecodeError
             ELSE LET c == skip_ws(s, k.pos)
                  IN  IF c > Len(s) \/ s[c] # ":" THEN DecodeError
                      ELSE LET r == scan_once(s, skip_ws(s, c + 1))
                           IN  IF ~r.ok THEN DecodeError
                               ELSE LET e == skip_ws(s, r.pos)
                                        now == (k.val :> r.val) @@ acc
                                    IN  IF e > Len(s) THEN DecodeError
                                        ELSE IF s[e] = "}"
                                             THEN Decoded(JDict(now), e + 1)
                                        ELSE IF s[e] = ","
                                             THEN scan_members(s, skip_ws(s, e + 1), now)
                                        ELSE DecodeError

\* The elements of an array from the value at i on.
scan_elements(s, i, acc) ==
    LET r == scan_once(s, i)
    IN  IF ~r.ok THEN DecodeError
        ELSE LET e == skip_ws(s, r.pos)
                 now == Append(acc, r.val)
             IN  IF e > Len(s) THEN DecodeError
                 ELSE IF s[e] = "]" THEN Decoded(JList(now), e + 1)
                 ELSE IF s[e] = ","
                      THEN scan_elements(s, skip_ws(s, e + 1), now)
                 ELSE DecodeError

\* The end of decoding: nothing but blanks may follow the value ("Extra data").
decode_end(s, r) ==
    IF r.ok /\ skip_ws(s, r.pos) = Len(s) + 1
    THEN [ok |-> TRUE, val |-> r.val]
    ELSE DecodeError

\* json.loads(s): one value with blanks allowed around it and nothing after.
json_loads(s) == decode_end(s, scan_once(s, skip_ws(s, 1)))

\* bool(x), as `if part:` takes it
Truthy(x) ==
    CASE x.t = "NoneType" -> FALSE
      [] x.t = "bool" -> x.v
      [] x.t = "int" -> x.v # 0
      [] x.t = "float" -> TRUE
      [] x.t = "str" -> x.v # <<>>
      [] x.t = "list" -> x.v # <<>>
      [] x.t = "dict" -> DOMAIN x.v # {}

\* dict.get(key, default)
dict_get(d, key, default) == IF key \in DOMAIN d THEN d[key] ELSE default

\* str(n) for n >= 0
DigitChars == <<"0", "1", "2", "3", "4", "5", "6", "7", "8", "9">>

RECURSIVE str_int(_)
str_int(n) ==
    IF n < 10 THEN <<DigitChars[n + 1]>>
    ELSE str_int(n \div 10) \o <<DigitChars[(n % 10) + 1]>>

\* ------------------------------------------------------ exception classes

\* The classes an exception is an instance of (its own first).
Mro(cls) ==
    CASE cls = "ConnectTimeout" ->
            {"ConnectTimeout", "TimeoutException", "TransportError",
             "RequestError", "HTTPError", "Exception"}
      [] cls = "ConnectError" ->
            {"ConnectError", "NetworkError", "TransportError",
             "RequestError", "HTTPError", "Exception"}
      [] cls = "HTTPStatusError" -> {"HTTPStatusError", "HTTPError", "Exception"}
      [] cls = "JSONDecodeError" -> {"JSONDecodeError", "ValueError", "Exception"}
      [] cls = "ValueError" -> {"ValueError", "Exception"}
      [] cls = "UnicodeDecodeError" ->
            {"UnicodeDecodeError", "UnicodeError", "ValueError", "Exception"}
      [] cls \in {"FileNotFoundError", "PermissionError", "IsADirectoryError"} ->
            {cls, "OSError", "Exception"}
      [] cls = "LLMConnectionError" -> {"LLMConnectionError", "AgentError", "Exception"}
      [] cls = "LLMResponseError" -> {"LLMResponseError", "AgentError", "Exception"}
      [] cls = "ToolDispatchError" -> {"ToolDispatchError", "AgentError", "Exception"}
      [] OTHER -> {cls, "Exception"}

IsInstance(e, cls) == cls \in Mro(e.cls)

\* An exception: its class, its text str(e), and the status of the response
\* it carries (0 when it carries none).
Exc(cls, text, status) == [cls |-> cls, text |-> text, status |-> status]

NoExc == Exc("", <<>>, 0)

\* The text of a json.JSONDecodeError, one character here.
DecodeErrorText == <<"Expecting value: line 1 column 1 (char 0)">>

\* ------------------------------------------------------- response assembly

\* Lines 98-100: a truthy part is kept and counted.
chunk_part(part, st) ==
    IF Truthy(part)
    THEN [st EXCEPT !.contents = Append(@, part), !.valid_chunks = @ + 1]
    ELSE st

\* Line 97, second get: message.get("content", "")
chunk_message(message, st) ==
    IF message.t # "dict"
    THEN [st EXCEPT !.raised = "AttributeError"]
    ELSE chunk_part(dict_get(message.v, <<"content">>, JStr(<<>>)), st)

\* Lines 96-103 for a line json.loads was given: d is what it gave.
chunk_decoded(d, st) ==
    IF ~d.ok
    THEN [st EXCEPT !.invalid_chunks = @ + 1]
    ELSE IF d.val.t # "dict"
    THEN [st EXCEPT !.raised = "AttributeError"]
    ELSE chunk_message(dict_get(d.val.v, <<"message">>, JDict(<<>>)), st)

\* The body of the loop over the lines: st holds contents, the two counters
\* and the exception that left the loop ("" while none did).
chunk_step(line, st) ==
    IF strip(line) = <<>> THEN st ELSE chunk_decoded(json_loads(line), st)

RECURSIVE chunk_loop(_, _)
chunk_loop(lines, st) ==
    IF lines = <<>> \/ st.raised # "" THEN st
    ELSE chunk_loop(Tail(lines), chunk_step(Head(lines), st))

AllStr(parts) == \A i \in 1..Len(parts) : parts[i].t = "str"

PartTexts(parts) == [i \in 1..Len(parts) |-> parts[i].v]

\* Lines 109-115: the assembled string of a loop that ended, and the empty check.
assembled_of(st, assembled) ==
    [valid_chunks |-> st.valid_chunks,
     invalid_chunks |-> st.invalid_chunks,
     assistant_json_str |-> assembled,
     exc |-> IF assembled = <<>>
             THEN Exc("LLMResponseError", <<"LLM returned empty response">>, 0)
             ELSE NoExc]

\* Lines 105-115 after the loop: an exception of the loop leaves run_agent,
\* "".join raises TypeError on a part that is no str.
assemble(st) ==
    IF st.raised # ""
    THEN [valid_chunks |-> st.valid_chunks, invalid_chunks |-> st.invalid_chunks,
          assistant_json_str |-> <<>>,
          exc |-> Exc(st.raised, <<"object has no attribute 'get'">>, 0)]
    ELSE IF ~AllStr(st.contents)
    THEN [valid_chunks |-> st.valid_chunks, invalid_chunks |-> st.invalid_chunks,
          assistant_json_str |-> <<>>,
          exc |-> Exc("TypeError", <<"sequence item: expected str instance">>, 0)]
    ELSE assembled_of(st, strip(join(PartTexts(st.contents))))

\* Step 2 of run_agent: the assembled string, or the exception that leaves
\* the stage.
process_response(raw_text) ==
    assemble(chunk_loop(splitlines(raw_text),
                        [contents |-> <<>>, valid_chunks |-> 0,
                         invalid_chunks |-> 0, raised |-> ""]))

\* ----------------------------------------------------- instruction parsing

NoInstruction == [tool |-> JNone, args |-> JNone]

InvalidStructure(text) == [exc |-> Exc("ValueError", text, 0), ins |-> NoInstruction]

\* validate with the check for "args" written before the check for "tool".
validate_args_first(js) ==
    IF js.t # "dict"
    THEN InvalidStructure(<<"Expected dict, got ", js.t>>)
    ELSE IF <<"args">> \notin DOMAIN js.v
    THEN InvalidStructure(<<"Missing 'args' key in response">>)
    ELSE IF <<"tool">> \notin DOMAIN js.v
    THEN InvalidStructure(<<"Missing 'tool' key in response">>)
    ELSE IF js.v[<<"args">>].t # "dict"
    THEN InvalidStructure(<<"Args must be dict, got ", js.v[<<"args">>].t>>)
    ELSE IF js.v[<<"tool">>].t # "str"
    THEN InvalidStructure(<<"Tool must be string, got ", js.v[<<"tool">>].t>>)
    ELSE [exc |-> NoExc,
          ins |-> [tool |-> js.v[<<"tool">>], args |-> js.v[<<"args">>]]]

\* Lines 123-137: the checks on the decoded value js.
validate(js) ==
    IF js.t # "dict"
    THEN InvalidStructure(<<"Expected dict, got ", js.t>>)
    ELSE IF <<"tool">> \notin DOMAIN js.v
    THEN InvalidStructure(<<"Missing 'tool' key in response">>)
    ELSE IF <<"args">> \notin DOMAIN js.v
    THEN InvalidStructure(<<"Missing 'args' key in response">>)
    ELSE IF js.v[<<"tool">>].t # "str"
    THEN InvalidStructure(<<"Tool must be string, got ", js.v[<<"tool">>].t>>)
    ELSE IF js.v[<<"args">>].t # "dict"
    THEN InvalidStructure(<<"Args must be dict, got ", js.v[<<"args">>].t>>)
    ELSE [exc |-> NoExc,
          ins |-> [tool |-> js.v[<<"tool">>], args |-> js.v[<<"args">>]]]

\* parse_decoded with a parser that also asks the args for a post_id.
parse_decoded_args_checked(d) ==
    IF ~d.ok
    THEN [exc |-> Exc("JSONDecodeError", DecodeErrorText, 0), ins |-> NoInstruction]
    ELSE IF validate(d.val).exc.cls = ""
            /\ <<"post_id">> \notin DOMAIN validate(d.val).ins.args.v
    THEN InvalidStructure(<<"Missing 'post_id' in args">>)
    ELSE validate(d.val)

\* Line 120 and what follows it: d is what json.loads gave.
parse_decoded(d) ==
    IF ~d.ok
    THEN [exc |-> Exc("JSONDecodeError", DecodeErrorText, 0), ins |-> NoInstruction]
    ELSE validate(d.val)

\* The try block of step 3: the exception it raises, or tool and args.
parse_body(s) == parse_decoded(json_loads(s))

\* The except clauses of step 3, in their order.
parse_except(e) ==
    IF IsInstance(e, "JSONDecodeError")
    THEN Exc("LLMResponseError", <<"Invalid JSON in LLM response", ": ">> \o e.text, 0)
    ELSE IF IsInstance(e, "KeyError") \/ IsInstance(e, "ValueError")
    THEN Exc("LLMResponseError", <<"Invalid response structure", ": ">> \o e.text, 0)
    ELSE Exc("LLMResponseError", <<"Unexpected error parsing LLM response", ": ">> \o e.text, 0)

\* parse_outcome with except clauses that log the error and do not raise it.
parse_outcome_swallowed(b) == [exc |-> NoExc, ins |-> b.ins]

\* What leaves the try statement of step 3.
parse_outcome(b) ==
    IF b.exc.cls = "" THEN b ELSE [exc |-> parse_except(b.exc), ins |-> NoInstruction]

\* Step 3 of run_agent.
parse_tool(s) == parse_outcome(parse_body(s))

\* ------------------------------------------------------------ HTTP calls

\* What `await cli.post(...)` gives: a response (status, text), or the
\* exception it raises (exc.cls is "" when it returns).
Response(status, text) == [exc |-> NoExc, status |-> status, text |-> text]

Raises(cls, text) == [exc |-> Exc(cls, text, 0), status |-> 0, text |-> <<>>]

NoResponse == Response(0, <<>>)

\* httpx Response.raise_for_status(): an HTTPStatusError unless the status is 2xx.
raise_for_status(resp) ==
    IF 200 <= resp.status /\ resp.status <= 299
    THEN NoExc
    ELSE Exc("HTTPStatusError", <<"Client or server error">>, resp.status)

\* f"{llm_base}/api/chat"
chat_url(cfg) == rstrip_slash(cfg.llm_base_url) \o <<"/api/chat">>

\* The try block of step 1: the exception it raises ("" when raw is set).
ollama_body(o) == IF o.exc.cls # "" THEN o.exc ELSE raise_for_status(o)

\* ollama_except with the RequestError clause written before the
\* TimeoutException clause, which it then shadows.
ollama_except_request_first(e, cfg) ==
    IF IsInstance(e, "RequestError")
    THEN Exc("LLMConnectionError",
             <<"Network error connecting to LLM service", ": ">> \o e.text, 0)
    ELSE IF IsInstance(e, "HTTPStatusError")
    THEN Exc("LLMConnectionError",
             <<"HTTP ">> \o str_int(e.status) \o <<" error from LLM service">>, 0)
    ELSE Exc("LLMConnectionError",
             <<"Unexpected error calling LLM service", ": ">> \o e.text, 0)

\* The except clauses of step 1, in their order.
ollama_except(e, cfg) ==
    IF IsInstance(e, "TimeoutException")
    THEN Exc("LLMConnectionError",
             <<"Timeout connecting to LLM service", " at ">> \o chat_url(cfg), 0)
    ELSE IF IsInstance(e, "HTTPStatusError")
    THEN Exc("LLMConnectionError",
             <<"HTTP ">> \o str_int(e.status) \o <<" error from LLM service">>, 0)
    ELSE IF IsInstance(e, "RequestError")
    THEN Exc("LLMConnectionError",
             <<"Network error connecting to LLM service", ": ">> \o e.text, 0)
    ELSE Exc("LLMConnectionError",
             <<"Unexpected error calling LLM service", ": ">> \o e.text, 0)

\* str.replace("_", "-", 1): only the first underscore is replaced.
RECURSIVE tool_path_first_only(_)
tool_path_first_only(tool_name) ==
    IF tool_name = <<>> THEN <<>>
    ELSE IF Head(tool_name) = "_" THEN <<"-">> \o Tail(tool_name)
    ELSE <<Head(tool_name)>> \o tool_path_first_only(Tail(tool_name))

\* Step 4: tool.replace("_", "-")
tool_path(tool_name) ==
    [i \in 1..Len(tool_name) |-> IF tool_name[i] = "_" THEN "-" ELSE tool_name[i]]

\* tool_url with the base as configured, its trailing slash kept.
tool_url_base_as_is(cfg, tool_name) ==
    cfg.local_api_base \o <<"/">> \o tool_path(tool_name)

\* f"{local_base}/{tool_path}"
tool_url(cfg, tool_name) ==
    rstrip_slash(cfg.local_api_base) \o <<"/">> \o tool_path(tool_name)

HTTP_NOT_FOUND == 404

HTTP_UNPROCESSABLE == 422

HTTP_INTERNAL_ERROR == 500

\* Line 183: tool_resp.json()
json_result(d) ==
    IF d.ok
    THEN [exc |-> NoExc, result |-> d.val]
    ELSE [exc |-> Exc("JSONDecodeError", DecodeErrorText, 0), result |-> JNone]

\* The try block of step 5 after the POST: the exception it raises, or the
\* result it returns.
dispatch_body(o, tool_name) ==
    IF o.exc.cls # "" THEN [exc |-> o.exc, result |-> JNone]
    ELSE IF o.status = HTTP_NOT_FOUND
    THEN [exc |-> Exc("ToolDispatchError",
                      <<"Tool '">> \o tool_name \o <<"' not found", " (path: ">>
                          \o tool_path(tool_name) \o <<")">>, 0),
          result |-> JNone]
    ELSE IF raise_for_status(o).cls # ""
    THEN [exc |-> raise_for_status(o), result |-> JNone]
    ELSE json_result(json_loads(o.text))

\* dispatch_except raising the response kind for a tool answer that is no JSON.
dispatch_except_json_as_response(e, tool_name) ==
    IF IsInstance(e, "JSONDecodeError")
    THEN Exc("LLMResponseError",
             <<"Tool '">> \o tool_name \o <<"' ", "returned invalid JSON">>, 0)
    ELSE Exc("ToolDispatchError",
             <<"Unexpected error calling tool", " '">> \o tool_name \o <<"': ">> \o e.text, 0)

\* The except clauses of step 5, in their order.
dispatch_except(e, tool_name) ==
    IF IsInstance(e, "TimeoutException")
    THEN Exc("ToolDispatchError",
             <<"Timeout calling tool", " '">> \o tool_name \o <<"'">>, 0)
    ELSE IF IsInstance(e, "HTTPStatusError")
    THEN Exc("ToolDispatchError",
             <<"Tool '">> \o tool_name \o <<"' ", "returned HTTP ">> \o str_int(e.status), 0)
    ELSE IF IsInstance(e, "RequestError")
    THEN Exc("ToolDispatchError",
             <<"Network error calling tool", " '">> \o tool_name \o <<"': ">> \o e.text, 0)
    ELSE IF IsInstance(e, "JSONDecodeError")
    THEN Exc("ToolDispatchError",
             <<"Tool '">> \o tool_name \o <<"' ", "returned invalid JSON">>, 0)
    ELSE Exc("ToolDispatchError",
             <<"Unexpected error calling tool", " '">> \o tool_name \o <<"': ">> \o e.text, 0)

\* What leaves the try statement of step 5.
dispatch_outcome(b, tool_name) ==
    IF b.exc.cls = "" THEN b
    ELSE [exc |-> dispatch_except(b.exc, tool_name), result |-> JNone]

\* Step 5 of run_agent after the POST.
dispatch_tool(o, tool_name) == dispatch_outcome(dispatch_body(o, tool_name), tool_name)

\* ------------------------------------------------------ the leaf adapters

\* isinstance(x, int): bool is a subclass of int.
isinstance_int(x) == x.t \in {"int", "bool"}

\* The integer an int or a bool is (True is 1, False is 0).
int_value(x) == IF x.t = "bool" THEN (IF x.v THEN 1 ELSE 0) ELSE x.v

\* f"{x}" for the values a post_id takes here.
py_format(x) ==
    CASE x.t = "int" -> (IF x.v < 0 THEN <<"-">> \o str_int(0 - x.v) ELSE str_int(x.v))
      [] x.t = "bool" -> (IF x.v THEN <<"True">> ELSE <<"False">>)
      [] x.t = "str" -> x.v
      [] x.t = "float" -> <<"nan">>
      [] x.t = "NoneType" -> <<"None">>
      [] x.t = "list" -> <<"[", "]">>
      [] OTHER -> <<"{", "}">>

\* handle_request lines 16: data.get("post_id")
post_id_of(data) == dict_get(data.v, <<"post_id">>, JNone)

\* adapter_validate without the test post_id <= 0.
adapter_validate_type_only(post_id) ==
    IF post_id.t = "NoneType"
    THEN Exc("ValueError", <<"post_id is required">>, 0)
    ELSE IF ~isinstance_int(post_id)
    THEN Exc("ValueError",
             <<"post_id must be a positive integer", ", got: ">> \o py_format(post_id), 0)
    ELSE NoExc

\* handle_request lines 19-27 (both adapters): the exception the checks raise.
adapter_validate(post_id) ==
    IF post_id.t = "NoneType"
    THEN Exc("ValueError", <<"post_id is required">>, 0)
    ELSE IF ~isinstance_int(post_id) \/ int_value(post_id) <= 0
    THEN Exc("ValueError",
             <<"post_id must be a positive integer", ", got: ">> \o py_format(post_id), 0)
    ELSE NoExc

\* Lines 29-30: the upstream request of each adapter.
adapter_request(name, cfg, post_id) ==
    IF name = "post"
    THEN [url |-> cfg.jsonplaceholder_base_url \o <<"/posts/">> \o py_format(post_id),
          params |-> JNone]
    ELSE [url |-> cfg.jsonplaceholder_base_url \o <<"/comments">>,
          params |-> JDict(<<"postId">> :> post_id)]

\* What follows "while fetching" in the messages of each adapter.
adapter_subject(name, post_id) ==
    (IF name = "post" THEN <<"post ">> ELSE <<"comments for post ">>) \o py_format(post_id)

\* jsonplaceholder_post.py lines 48-53: the span attributes read from the
\* decoded result, then the return.
post_result(value) ==
    IF value.t # "dict"
    THEN [exc |-> Exc("AttributeError",
                      <<"'", value.t, "' object has no attribute 'get'">>, 0),
          result |-> JNone]
    ELSE IF dict_get(value.v, <<"title">>, JStr(<<>>)).t \notin {"str", "list"}
    THEN [exc |-> Exc("TypeError", <<"object is not subscriptable">>, 0),
          result |-> JNone]
    ELSE [exc |-> NoExc, result |-> value]

\* comments_result without the isinstance check: any decoded value is returned.
comments_result_unchecked(value) == [exc |-> NoExc, result |-> value]

\* jsonplaceholder_comments.py lines 45-54: the result must be a list.
comments_result(value) ==
    IF value.t # "list"
    THEN [exc |-> Exc("RuntimeError", <<"Expected list of comments, got ", value.t>>, 0),
          result |-> JNone]
    ELSE [exc |-> NoExc, result |-> value]

\* The lines after resp.json() of each adapter, r being what json() gave.
adapter_result_of(name, r) ==
    IF r.exc.cls # "" THEN r
    ELSE IF name = "post" THEN post_result(r.result)
    ELSE comments_result(r.result)

\* The try block after the GET answered o.
adapter_body(name, post_id, o) ==
    IF o.exc.cls # "" THEN [exc |-> o.exc, result |-> JNone]
    ELSE IF name = "post" /\ o.status = HTTP_NOT_FOUND
    THEN [exc |-> Exc("ValueError",
                      <<"Post with ID ">> \o py_format(post_id) \o <<" not found">>, 0),
          result |-> JNone]
    ELSE IF raise_for_status(o).cls # ""
    THEN [exc |-> raise_for_status(o), result |-> JNone]
    ELSE adapter_result_of(name, json_result(json_loads(o.text)))

\* The except clauses of handle_request, in their order.
adapter_except(name, post_id, e) ==
    IF IsInstance(e, "TimeoutException")
    THEN Exc("RuntimeError",
             <<"Timeout while fetching ">> \o adapter_subject(name, post_id), 0)
    ELSE IF IsInstance(e, "HTTPStatusError")
    THEN Exc("RuntimeError",
             <<"HTTP ">> \o str_int(e.status) \o <<" error while fetching ">>
                 \o adapter_subject(name, post_id), 0)
    ELSE IF IsInstance(e, "RequestError")
    THEN Exc("RuntimeError",
             <<"Network error while fetching ">> \o adapter_subject(name, post_id)
                 \o <<": ">> \o e.text, 0)
    ELSE Exc("RuntimeError",
             <<"Unexpected error while fetching ">> \o adapter_subject(name, post_id)
                 \o <<": ">> \o e.text, 0)

\* What leaves the try statement of handle_request.
adapter_outcome(name, post_id, b) ==
    IF b.exc.cls = "" THEN b
    ELSE [exc |-> adapter_except(name, post_id, b.exc), result |-> JNone]

\* handle_request after the GET answered o.
adapter_response(name, post_id, o) ==
    adapter_outcome(name, post_id, adapter_body(name, post_id, o))

\* --------------------------------------------- run_agent, one execution

\* Lines 40-46: the body of the model call.
chat_payload(cfg, q) ==
    [model |-> "mistral",
     messages |-> <<[role |-> "system", content |-> cfg.system_prompt],
                    [role |-> "user", content |-> q]>>]

\* The local variables of one execution of run_agent, at its start.
NewRun(q) ==
    [pc |-> "START", query |-> q, payload |-> [model |-> "", messages |-> <<>>],
     resp |-> NoResponse, raw |-> <<>>, assistant_json_str |-> <<>>,
     tool |-> JNone, args |-> JNone, tool_request |-> [url |-> <<>>, json |-> JNone],
     tool_resp |-> NoResponse, result |-> JNone, raised |-> NoExc]

\* An exception e leaves the execution r.
run_raised(r, e) == [r EXCEPT !.raised = e, !.pc = "FAILED"]

\* Lines 58-81: the model call answered o, e is what its try block raised.
run_called(cfg, r, o, e) ==
    IF e.cls = ""
    THEN [r EXCEPT !.resp = o, !.raw = o.text, !.pc = "MODEL_CALLED"]
    ELSE run_raised([r EXCEPT !.resp = o], ollama_except(e, cfg))

\* Lines 84-115: a is what the assembler gave.
run_assembled(r, a) ==
    IF a.exc.cls = ""
    THEN [r EXCEPT !.assistant_json_str = a.assistant_json_str, !.pc = "ASSEMBLED"]
    ELSE run_raised(r, a.exc)

\* Lines 118-154: p is what the parser gave.
run_parsed(r, p) ==
    IF p.exc.cls = ""
    THEN [r EXCEPT !.tool = p.ins.tool, !.args = p.ins.args, !.pc = "PARSED"]
    ELSE run_raised(r, p.exc)

\* Lines 174-216: d is what the dispatcher gave.
run_returned(r, d) ==
    IF d.exc.cls = ""
    THEN [r EXCEPT !.result = d.result, !.pc = "DONE"]
    ELSE run_raised(r, d.exc)

\* The next stage of the execution r; o is the answer to its POST in the two
\* stages that make one.
agent_step(cfg, r, o) ==
    CASE r.pc = "START" ->
            [r EXCEPT !.payload = chat_payload(cfg, r.query), !.pc = "PROMPTING"]
      [] r.pc = "PROMPTING" -> run_called(cfg, r, o, ollama_body(o))
      [] r.pc = "MODEL_CALLED" -> run_assembled(r, process_response(r.raw))
      [] r.pc = "ASSEMBLED" -> run_parsed(r, parse_tool(r.assistant_json_str))
      [] r.pc = "PARSED" ->
            [r EXCEPT !.tool_request = [url |-> tool_url(cfg, r.tool.v), json |-> r.args],
                      !.tool_resp = o,
                      !.pc = "DISPATCHED"]
      [] r.pc = "DISPATCHED" -> run_returned(r, dispatch_tool(r.tool_resp, r.tool.v))
      [] OTHER -> r

\* run_agent alone, from r to its end: the model call answers om, the tool
\* call ot.
RECURSIVE run_to_end(_, _, _, _)
run_to_end(cfg, r, om, ot) ==
    IF r.pc \in {"DONE", "FAILED"} THEN r
    ELSE run_to_end(cfg, agent_step(cfg, r, IF r.pc = "PROMPTING" THEN om ELSE ot),
                    om, ot)

\* with_run had run_agent kept the instruction in module-level variables:
\* what one execution parsed is what every execution dispatches.
with_run_shared_instruction(rs, i, n) ==
    [j \in DOMAIN rs |->
        IF j = i THEN n ELSE [rs[j] EXCEPT !.tool = n.tool, !.args = n.args]]

\* The executions rs with the execution i replaced by n.
with_run(rs, i, n) == [rs EXCEPT ![i] = n]

\* The execution i takes its next step: every name run_agent assigns is a
\* local of the call, so the step changes the execution i and no other.
run_step(rs, cfg, i, o) == with_run(rs, i, agent_step(cfg, rs[i], o))

\* ------------------------------------------------------ the system prompt

DEFAULT_PROMPT ==
    <<"You are a helpful AI assistant that can fetch posts and comments from JSONPlaceholder API.">>

\* prompts/system_prompt.txt as the file system has it.
PromptFile(kind, text) == [kind |-> kind, text |-> text]

\* Path.exists()
path_exists(f) == f.kind # "missing"

\* Path.read_text(encoding="utf-8"): the text, or the exception of the
\* open, the read or the decoding.
read_text(f) ==
    CASE f.kind = "file" -> [exc |-> NoExc, text |-> f.text]
      [] f.kind = "missing" ->
            [exc |-> Exc("FileNotFoundError", <<"No such file or directory">>, 0),
             text |-> <<>>]
      [] f.kind = "directory" ->
            [exc |-> Exc("IsADirectoryError", <<"Is a directory">>, 0), text |-> <<>>]
      [] f.kind = "unreadable" ->
            [exc |-> Exc("PermissionError", <<"Permission denied">>, 0), text |-> <<>>]
      [] OTHER ->
            [exc |-> Exc("UnicodeDecodeError", <<"invalid start byte">>, 0),
             text |-> <<>>]

\* config.py lines 33-37: the try block of the property.
system_prompt_body(f) ==
    IF ~path_exists(f)
    THEN [exc |-> Exc("FileNotFoundError", <<"System prompt file not found">>, 0),
          text |-> <<>>]
    ELSE IF read_text(f).exc.cls # "" THEN read_text(f)
    ELSE [exc |-> NoExc, text |-> strip(read_text(f).text)]

\* system_prompt_except with except OSError in place of except Exception.
system_prompt_except_os_error(e) ==
    IF IsInstance(e, "OSError")
    THEN [exc |-> NoExc, text |-> DEFAULT_PROMPT]
    ELSE [exc |-> e, text |-> <<>>]

\* config.py lines 38-40: except Exception returns the default prompt.
system_prompt_except(e) ==
    IF IsInstance(e, "Exception")
    THEN [exc |-> NoExc, text |-> DEFAULT_PROMPT]
    ELSE [exc |-> e, text |-> <<>>]

\* Settings.system_prompt
system_prompt(f) ==
    IF system_prompt_body(f).exc.cls = "" THEN system_prompt_body(f)
    ELSE system_prompt_except(system_prompt_body(f).exc)

\* ---------------------------------------------------- the tool endpoints

\* router.py lines 31, 59 and 87: the paths the decorators register, each with
\* its endpoint; of two routes with one path the first registered answers.
include_router(cfg) ==
    ((<<"/">> \o cfg.post_tool_path) :> "post")
        @@ ((<<"/">> \o cfg.comments_tool_path) :> "comments")
        @@ (<<"/", "ask">> :> "ask")

\* int() of a text of one digit.
int_of_digit(c) == CHOOSE n \in 0..9 : DigitChars[n + 1] = c

\* The forms other than an integer that a lax integer field converts.
coercible_int(v) ==
    \/ v.t = "bool"
    \/ v.t = "str" /\ Len(v.v) = 1 /\ \E n \in 1..10 : DigitChars[n] = v.v[1]

coerced_int(v) ==
    IF v.t = "bool" THEN JInt(int_value(v)) ELSE JInt(int_of_digit(v.v[1]))

\* A request model that validated: model_dump() has the declared field only.
ModelValid(n) == [ok |-> TRUE, data |-> JDict(<<"post_id">> :> n)]

ModelInvalid == [ok |-> FALSE, data |-> JNone]

\* router.py lines 17-21, PostRequest and CommentsRequest (post_id: int): what
\* validating the request body can give.  An integer validates, a missing
\* field and a value that is no number do not; whether a bool or a text of
\* digits is converted depends on the strictness of the installed validator,
\* so both outcomes are possible.
request_model(body) ==
    IF body.t # "dict" \/ <<"post_id">> \notin DOMAIN body.v THEN {ModelInvalid}
    ELSE IF body.v[<<"post_id">>].t = "int" THEN {ModelValid(body.v[<<"post_id">>])}
    ELSE IF coercible_int(body.v[<<"post_id">>])
    THEN {ModelInvalid, ModelValid(coerced_int(body.v[<<"post_id">>]))}
    ELSE {ModelInvalid}

HttpAnswer(status_code, json) == [status_code |-> status_code, json |-> json]

\* The answer to a request no route matches.
route_not_found == HttpAnswer(HTTP_NOT_FOUND, JDict(<<"detail">> :> JStr(<<"Not Found">>)))

\* The answer to a request body the request model rejects.
request_validation_error ==
    HttpAnswer(HTTP_UNPROCESSABLE, JDict(<<"detail">> :> JList(<<JStr(<<"post_id">>)>>)))

\* tool_endpoint_answer whose except clause passes a ValueError on as 404.
tool_endpoint_answer_not_found(name, value, e) ==
    IF e.cls = "" THEN HttpAnswer(200, value)
    ELSE IF IsInstance(e, "ValueError") THEN route_not_found
    ELSE HttpAnswer(HTTP_INTERNAL_ERROR,
             JDict(<<"detail">> :>
                 JStr(<<"Failed to fetch ", name, ": ">> \o e.text)))

\* router.py lines 41-57 and 69-85: the adapter's value is returned, an
\* exception of the adapter becomes HTTPException(500).
tool_endpoint_answer(name, value, e) ==
    IF e.cls = "" THEN HttpAnswer(200, value)
    ELSE HttpAnswer(HTTP_INTERNAL_ERROR,
             JDict(<<"detail">> :>
                 JStr(<<"Failed to fetch ", name, ": ">> \o e.text)))

\* ------------------------------------------------------ the /ask boundary

\* The JSON body of a failure response of ask_llm.
ErrorBody(error, details, error_type) ==
    [error |-> error, details |-> details, error_type |-> error_type,
     status |-> "error"]

INTERNAL_DETAILS == <<"An unexpected error occurred while processing your request">>

\* ask_success with a falsy result replaced by an empty dict (result or {}).
ask_success_or_empty(value) ==
    [result |-> IF Truthy(value) THEN value ELSE JDict(<<>>), status |-> "success"]

\* router.py lines 117-119: the value run_agent returned, wrapped.
ask_success(value) == [result |-> value, status |-> "success"]

\* A handler that returned: FastAPI answers 200 with the returned dict.
AskReturned(body) == [response |-> [status_code |-> 200, json |-> body], exc |-> NoExc]

\* An exception that leaves the handler.
AskRaised(e) == [response |-> [status_code |-> 0, json |-> <<>>], exc |-> e]

\* ask_except without its last clause: what is no AgentError leaves ask_llm.
ask_except_agent_errors_only(e) ==
    IF IsInstance(e, "LLMConnectionError")
    THEN AskReturned(ErrorBody("LLM service unavailable", e.text, "llm_connection_error"))
    ELSE IF IsInstance(e, "LLMResponseError")
    THEN AskReturned(ErrorBody("Invalid response from LLM", e.text, "llm_response_error"))
    ELSE IF IsInstance(e, "ToolDispatchError")
    THEN AskReturned(ErrorBody("Tool execution failed", e.text, "tool_dispatch_error"))
    ELSE IF IsInstance(e, "AgentError")
    THEN AskReturned(ErrorBody("Agent execution failed", e.text, "agent_error"))
    ELSE AskRaised(e)

\* ask_except with the clause for AgentError written first: it shadows the
\* clauses of its three subclasses.
ask_except_agent_error_first(e) ==
    IF IsInstance(e, "AgentError")
    THEN AskReturned(ErrorBody("Agent execution failed", e.text, "agent_error"))
    ELSE IF IsInstance(e, "LLMConnectionError")
    THEN AskReturned(ErrorBody("LLM service unavailable", e.text, "llm_connection_error"))
    ELSE IF IsInstance(e, "LLMResponseError")
    THEN AskReturned(ErrorBody("Invalid response from LLM", e.text, "llm_response_error"))
    ELSE IF IsInstance(e, "ToolDispatchError")
    THEN AskReturned(ErrorBody("Tool execution failed", e.text, "tool_dispatch_error"))
    ELSE IF IsInstance(e, "Exception")
    THEN AskReturned(ErrorBody("Internal server error", INTERNAL_DETAILS, "internal_error"))
    ELSE AskRaised(e)

\* ask_except with str(exc) as the details of an unexpected error.
ask_except_details_from_exception(e) ==
    IF IsInstance(e, "LLMConnectionError")
    THEN AskReturned(ErrorBody("LLM service unavailable", e.text, "llm_connection_error"))
    ELSE IF IsInstance(e, "LLMResponseError")
    THEN AskReturned(ErrorBody("Invalid response from LLM", e.text, "llm_response_error"))
    ELSE IF IsInstance(e, "ToolDispatchError")
    THEN AskReturned(ErrorBody("Tool execution failed", e.text, "tool_dispatch_error"))
    ELSE IF IsInstance(e, "AgentError")
    THEN AskReturned(ErrorBody("Agent execution failed", e.text, "agent_error"))
    ELSE IF IsInstance(e, "Exception")
    THEN AskReturned(ErrorBody("Internal server error", e.text, "internal_error"))
    ELSE AskRaised(e)

\* router.py lines 121-174: the except clauses of ask_llm, in their order.
ask_except(e) ==
    IF IsInstance(e, "LLMConnectionError")
    THEN AskReturned(ErrorBody("LLM service unavailable", e.text, "llm_connection_error"))
    ELSE IF IsInstance(e, "LLMResponseError")
    THEN AskReturned(ErrorBody("Invalid response from LLM", e.text, "llm_response_error"))
    ELSE IF IsInstance(e, "ToolDispatchError")
    THEN AskReturned(ErrorBody("Tool execution failed", e.text, "tool_dispatch_error"))
    ELSE IF IsInstance(e, "AgentError")
    THEN AskReturned(ErrorBody("Agent execution failed", e.text, "agent_error"))
    ELSE IF IsInstance(e, "Exception")
    THEN AskReturned(ErrorBody("Internal server error", INTERNAL_DETAILS, "internal_error"))
    ELSE AskRaised(e)

\* router.py lines 115-174: ask_llm around run_agent, which raised e ("" when
\* it returned) or returned value.
ask_llm(e, value) ==
    IF e.cls = "" THEN AskReturned(ask_success(value)) ELSE ask_except(e)

\* ----------------------------------------------------------------- inputs

\* A JSON string literal holding the one word w.
Lit(w) == <<QUOTE, w, QUOTE>>

PostCall == <<QUOTE, "post", "_", "call", QUOTE>>

CommentsCall == <<QUOTE, "comments", "_", "call", QUOTE>>

\* {"tool": <t>, "args": <a>}, written as the system prompt asks for it.
Instruction(t, a) ==
    <<"{">> \o Lit("tool") \o <<":", " ">> \o t \o <<",", " ">>
        \o Lit("args") \o <<":", " ">> \o a \o <<"}">>

PostIdArgs == <<"{">> \o Lit("post_id") \o <<":", " ", "2", "}">>

\* The texts a model answers with: well-formed instructions, instructions
\* with each defect, JSON that is no object, and text that is no JSON.
AssistantTexts ==
    << Instruction(PostCall, PostIdArgs),
       Instruction(CommentsCall, <<"{", "}">>),
       <<" ">> \o Instruction(PostCall, PostIdArgs) \o <<LF>>,
       Instruction(Lit("nope"), <<"{">> \o Lit("x") \o <<":", "null", "}">>),
       Instruction(<<QUOTE, QUOTE>>, <<"{", "}">>),
       <<"{">> \o Lit("args") \o <<":", "{", "}", ",">> \o Lit("tool") \o <<":">>
           \o <<QUOTE, "a", "_", "b", "_", "c", QUOTE, "}">>,
       <<"{">> \o Lit("args") \o <<":">> \o PostIdArgs \o <<"}">>,
       <<"{">> \o Lit("tool") \o <<":">> \o PostCall \o <<"}">>,
       <<"{">> \o Lit("tool") \o <<":", "1", "}">>,
       <<"{", "}">>,
       Instruction(<<"1">>, <<"{", "}">>),
       Instruction(PostCall, <<"[", "]">>),
       Instruction(<<"null">>, <<"2">>),
       <<"[", "1", "]">>,
       PostCall,
       <<"NaN">>,
       <<"invalid", " ", "json">>,
       <<"{">> \o Lit("tool") \o <<":">> \o PostCall \o <<",">>,
       Instruction(PostCall, <<"{", "}">>) \o <<" ", "x">>,
       <<" ", LF>>,
       Instruction(PostCall, <<"{">> \o Lit("post_id") \o <<":", "NaN", "}">>) >>

\* The answers the extra lines are interleaved with (indices of AssistantTexts).
NoiseHosts == {1, 3, 5, 7, 17, 20}

\* json.dumps of a str, without the quotes: the escapes scan_string decodes.
RECURSIVE escape(_)
escape(s) ==
    IF s = <<>> THEN <<>>
    ELSE (IF Head(s) \in {QUOTE, BACKSLASH} THEN <<BACKSLASH, Head(s)>>
          ELSE IF Head(s) = LF THEN <<BACKSLASH, "n">>
          ELSE <<Head(s)>>) \o escape(Tail(s))

\* One streamed chunk carrying a fragment: {"message":{"content":"<fragment>"}}
chunk_line(fragment) ==
    <<"{">> \o Lit("message") \o <<":", "{">> \o Lit("content") \o <<":", QUOTE>>
        \o escape(fragment) \o <<QUOTE, "}", "}">>

MessageLine(m) == <<"{">> \o Lit("message") \o <<":">> \o m \o <<"}">>

ContentLine(c) == MessageLine(<<"{">> \o Lit("content") \o <<":">> \o c \o <<"}">>)

\* Lines that carry no fragment: blank, not JSON, JSON but no object, objects
\* without message.content, and contents that are no text.
NoiseLines ==
    { <<>>, <<" ">>,
      <<"x">>, <<"{">> \o Lit("message") \o <<":", "{">>,
      <<"1">>, <<"[", "]">>, <<"null">>,
      <<"{", "}">>, <<"{">> \o Lit("done") \o <<":", "true", "}">>,
      MessageLine(<<"null">>), MessageLine(Lit("x")), MessageLine(<<"{", "}">>),
      ContentLine(<<QUOTE, QUOTE>>), ContentLine(<<"null">>), ContentLine(<<"0">>),
      ContentLine(<<"1">>), ContentLine(<<"[", "]">>), ContentLine(<<"[", "1", "]">>) }

\* The ways to cut a text into fragments at up to k places.
RECURSIVE CutsOf(_, _)
CutsOf(text, k) ==
    IF k = 0 THEN {<<text>>}
    ELSE LET prev == CutsOf(text, k - 1)
         IN  prev \cup
             UNION {{SubSeq(f, 1, Len(f) - 1)
                        \o <<SubSeq(f[Len(f)], 1, c),
                             SubSeq(f[Len(f)], c + 1, Len(f[Len(f)]))>> :
                     c \in 0..Len(f[Len(f)])} : f \in prev}

ChunkLines(fragments) == [i \in 1..Len(fragments) |-> chunk_line(fragments[i])]

\* A text cut in the middle.
MidCut(text) ==
    <<SubSeq(text, 1, Len(text) \div 2), SubSeq(text, (Len(text) \div 2) + 1, Len(text))>>

\* The ways to put up to k extra lines anywhere among the lines.
RECURSIVE WithNoise(_, _)
WithNoise(lines, k) ==
    IF k = 0 THEN {lines}
    ELSE LET prev == WithNoise(lines, k - 1)
         IN  prev \cup
             UNION {{SubSeq(l, 1, p) \o <<n>> \o SubSeq(l, p + 1, Len(l)) :
                     p \in 0..Len(l), n \in NoiseLines} : l \in prev}

\* The response text: every line ended by a line feed.
RECURSIVE Body(_)
Body(lines) ==
    IF lines = <<>> THEN <<>> ELSE Head(lines) \o <<LF>> \o Body(Tail(lines))

\* The bodies the model endpoint answers with.
ModelBodies ==
    UNION {{Body(ChunkLines(f)) : f \in CutsOf(AssistantTexts[i], MaxCuts)} :
           i \in 1..Len(AssistantTexts)}
    \cup UNION {{Body(l) : l \in WithNoise(ChunkLines(MidCut(AssistantTexts[i])), MaxNoise)} :
                i \in NoiseHosts}
    \cup {Body(l) : l \in WithNoise(<<>>, MaxNoise + 1)}
    \cup {chunk_line(AssistantTexts[1])}

\* What the POST to the model endpoint can give.
ModelOutcomes ==
    {Response(200, b) : b \in ModelBodies}
    \cup {Response(404, <<"not found">>), Response(500, <<>>),
          Raises("ConnectTimeout", <<"timed out">>),
          Raises("ConnectError", <<"All connection attempts failed">>),
          Raises("RuntimeError", <<"Event loop is closed">>)}

\* What the POST to the tool endpoint can give.
ToolOutcomes ==
    {Response(200, <<"{">> \o Lit("id") \o <<":", "2", "}">>),
     Response(200, <<"[", "]">>),
     Response(200, <<"null">>),
     Response(200, <<"NaN">>),
     Response(200, <<"Internal", " ", "Server">>),
     Response(200, <<>>),
     Response(404, <<"{">> \o Lit("detail") \o <<":">> \o Lit("Not Found") \o <<"}">>),
     Response(422, <<"{">> \o Lit("detail") \o <<":", "[", "]", "}">>),
     Response(500, <<"oops">>),
     Raises("ConnectTimeout", <<"timed out">>),
     Raises("ConnectError", <<"All connection attempts failed">>),
     Raises("RuntimeError", <<"Event loop is closed">>)}

\* The settings run_agent reads.
Configs ==
    {[llm_base_url |-> <<"http://host.docker.internal:11434">>,
      local_api_base |-> <<"http://127.0.0.1:8080">>,
      jsonplaceholder_base_url |-> <<"https://jsonplaceholder.typicode.com">>,
      system_prompt |-> <<"You are a helpful AI assistant">>,
      post_tool_path |-> <<"post", "-", "call">>,
      comments_tool_path |-> <<"comments", "-", "call">>],
     [llm_base_url |-> <<"http://localhost:11434", "/">>,
      local_api_base |-> <<"http://localhost:8080", "/">>,
      jsonplaceholder_base_url |-> <<"https://jsonplaceholder.typicode.com">>,
      system_prompt |-> <<"Test system prompt">>,
      post_tool_path |-> <<"post", "-", "call">>,
      comments_tool_path |-> <<"comments", "-", "call">>]}

Queries == {<<"Get me post number two">>, <<"show", " ", QUOTE, "comments", QUOTE>>}

\* test_router.py: the values the patched run_agent returns.
MockReturnValues ==
    {JDict(<<"id">> :> JInt(2)), JDict(<<>>), JList(<<>>), JList(<<JInt(2)>>),
     JNone, JStr(<<>>), JInt(0), JBool(FALSE)}

MockExceptionClasses ==
    {"LLMConnectionError", "LLMResponseError", "ToolDispatchError", "AgentError",
     "Exception", "ValueError", "KeyError", "RuntimeError", "AttributeError",
     "TypeError", "HTTPStatusError", "ConnectTimeout", "JSONDecodeError"}

MockTexts ==
    {<<>>, <<"LLM service unavailable">>, <<"Invalid JSON response">>,
     <<"Tool not found">>, <<"Unexpected error">>}

\* test_router.py: the exceptions the patched run_agent raises.
MockSideEffects == {Exc(c, t, 0) : c \in MockExceptionClasses, t \in MockTexts}

\* The executions of run_agent in flight at once.
NumRuns == 2

\* What the model endpoint answers to concurrent requests.
ConcurrentModelOutcomes ==
    {Response(200, chunk_line(Instruction(PostCall, PostIdArgs)) \o <<LF>>),
     Response(200, chunk_line(Instruction(Lit("nope"), <<"{", "}">>)) \o <<LF>>),
     Response(500, <<>>)}

\* What the tool endpoint answers to concurrent requests.
ConcurrentToolOutcomes ==
    {Response(200, <<"{">> \o Lit("id") \o <<":", "2", "}">>),
     Response(404, <<"{">> \o Lit("detail") \o <<":">> \o Lit("Not Found") \o <<"}">>)}

\* Text before and after the content of the prompt file.
PromptMargins == {<<>>, <<" ">>, <<LF>>, <<LF, " ">>}

PromptContents == {<<>>, <<"Test system prompt">>, <<"You are", LF, " ", "an agent">>}

\* The states of prompts/system_prompt.txt: absent, a file with a text, or
\* there and not readable as text.
PromptFiles ==
    {PromptFile("file", a \o c \o b) :
         a \in PromptMargins, c \in PromptContents, b \in PromptMargins}
    \cup {PromptFile(k, <<>>) : k \in {"missing", "directory", "unreadable", "undecodable"}}

\* The two leaf adapters.
Adapters == {"post", "comments"}

\* The dicts handle_request is called with.
AdapterData ==
    {JDict(<<>>)}
    \cup {JDict(<<"post_id">> :> v) :
            v \in {JNone, JInt(2), JInt(1), JInt(0), JInt(0 - 1), JStr(<<"not_a_number">>),
                   JStr(<<"2">>), JBool(TRUE), JBool(FALSE), JNaN, JList(<<>>)}}

\* Settings with tool paths other than the defaults (test_config.py lines
\* 98-104) beside the default ones.
RouteConfigs ==
    Configs \cup
    {[llm_base_url |-> <<"http://host.docker.internal:11434">>,
      local_api_base |-> <<"http://127.0.0.1:8080">>,
      jsonplaceholder_base_url |-> <<"https://jsonplaceholder.typicode.com">>,
      system_prompt |-> <<"You are a helpful AI assistant">>,
      post_tool_path |-> <<"custom", "-", "post", "-", "endpoint">>,
      comments_tool_path |-> <<"custom", "-", "comments", "-", "endpoint">>]}

\* The tool names the dispatcher is given.
RouteToolNames ==
    {<<"post", "_", "call">>, <<"comments", "_", "call">>, <<"post", "-", "call">>,
     <<"custom", "_", "post", "_", "endpoint">>, <<"unknown", "_", "tool">>,
     <<"ask">>, <<>>}

\* The args the dispatcher posts.
RouteBodies ==
    AdapterData \cup
    {JDict((<<"post_id">> :> JInt(2)) @@ (<<"verbose">> :> JBool(TRUE)))}

\* What the GET to the upstream service can give.
UpstreamOutcomes ==
    {Response(200, <<"{">> \o Lit("id") \o <<":", "2", "}">>),
     Response(200, <<"{">> \o Lit("title") \o <<":", "2", "}">>),
     Response(200, <<"{", "}">>),
     Response(200, <<"[", "]">>),
     Response(200, <<"[", "1", "]">>),
     Response(200, <<"null">>),
     Response(200, <<"oops">>),
     Response(404, <<"{", "}">>),
     Response(500, <<"oops">>),
     Raises("ConnectTimeout", <<"timed out">>),
     Raises("ConnectError", <<"All connection attempts failed">>),
     Raises("RuntimeError", <<"Event loop is closed">>)}

\* ------------------------------------------------------------------ state

VARIABLES
    pc,                  \* the stage run_agent is in
    query,               \* the argument of run_agent
    settings,            \* app.config.settings
    payload,             \* the body of the model call
    model_posts,         \* POSTs the model endpoint received
    tool_posts,          \* POSTs the tool endpoint received
    resp,                \* what the model call gave
    raw,                 \* resp.text
    valid_chunks,
    invalid_chunks,
    assistant_json_str,
    tool,                \* js["tool"]
    args,                \* js["args"]
    tool_request,        \* url and body of the tool call
    tool_resp,           \* what the tool call gave
    result,              \* the value run_agent returns
    raised,              \* the exception that leaves run_agent
    error_span,          \* the span the exception was raised in
    ask_response,        \* what /ask answered (status_code 0: nothing yet)
    ask_raised,          \* the exception that left ask_llm
    adapter,             \* the adapter whose handle_request runs ("" for none)
    data,                \* the argument of handle_request
    adapter_pc,          \* where handle_request is
    upstream_gets,       \* GETs the upstream service received
    upstream_request,    \* url and params of the GET
    upstream_resp,       \* what the GET gave
    adapter_result,      \* the value handle_request returns
    adapter_raised,      \* the exception that leaves handle_request
    routes,              \* the routes of the router: path -> endpoint
    http_request,        \* path and JSON body of a POST to the server
    route_pc,            \* where the handling of http_request is
    http_response,       \* status code and JSON body of the answer
    prompt_file,         \* prompts/system_prompt.txt
    prompt_pc,           \* where the read of Settings.system_prompt is
    prompt_text,         \* the value the property returned
    prompt_raised,       \* the exception that left the property
    runs                 \* the executions of run_agent in flight at once

vars == <<pc, query, settings, payload, model_posts, tool_posts, resp, raw,
          valid_chunks, invalid_chunks, assistant_json_str, tool, args,
          tool_request, tool_resp, result, raised, error_span, ask_response,
          ask_raised, adapter, data, adapter_pc, upstream_gets, upstream_request,
          upstream_resp, adapter_result, adapter_raised, routes, http_request,
          route_pc, http_response, prompt_file, prompt_pc, prompt_text,
          prompt_raised, runs>>

\* The variables of run_agent.
agent_vars == <<pc, query, settings, payload, model_posts, tool_posts, resp, raw,
                valid_chunks, invalid_chunks, assistant_json_str, tool, args,
                tool_request, tool_resp, result, raised, error_span>>

\* The variables of handle_request.
adapter_vars == <<adapter, data, adapter_pc, upstream_gets, upstream_request,
                  upstream_resp, adapter_result, adapter_raised>>

NoUpstreamRequest == [url |-> <<>>, params |-> JNone]

\* No handle_request runs.
AdapterIdle ==
    /\ adapter = ""
    /\ data = JNone
    /\ adapter_pc = "IDLE"
    /\ upstream_gets = 0
    /\ upstream_request = NoUpstreamRequest
    /\ upstream_resp = NoResponse
    /\ adapter_result = JNone
    /\ adapter_raised = NoExc

\* The variables of ask_llm.
ask_vars == <<ask_response, ask_raised>>

\* The variables of Settings.system_prompt.
prompt_vars == <<prompt_file, prompt_pc, prompt_text, prompt_raised>>

\* The property is not being read.
PromptIdle ==
    /\ prompt_file = PromptFile("missing", <<>>)
    /\ prompt_pc = "IDLE"
    /\ prompt_text = <<>>
    /\ prompt_raised = NoExc

\* The variables of the tool endpoints.
route_vars == <<routes, http_request, route_pc, http_response>>

NoHttpRequest == [path |-> <<>>, json |-> JNone]

NoHttpAnswer == HttpAnswer(0, JNone)

\* The router as it is after import, no request to a tool endpoint.
RouteIdle ==
    /\ routes = include_router(settings)
    /\ http_request = NoHttpRequest
    /\ route_pc = "IDLE"
    /\ http_response = NoHttpAnswer

NoPayload == [model |-> "", messages |-> <<>>]

NoRequest == [url |-> <<>>, json |-> JNone]

Init ==
    /\ pc = "START"
    /\ query \in Queries
    /\ settings \in Configs
    /\ payload = NoPayload
    /\ model_posts = 0
    /\ tool_posts = 0
    /\ resp = NoResponse
    /\ raw = <<>>
    /\ valid_chunks = 0
    /\ invalid_chunks = 0
    /\ assistant_json_str = <<>>
    /\ tool = JNone
    /\ args = JNone
    /\ tool_request = NoRequest
    /\ tool_resp = NoResponse
    /\ result = JNone
    /\ raised = NoExc
    /\ error_span = ""
    /\ ask_response = AskRaised(NoExc).response
    /\ ask_raised = NoExc
    /\ AdapterIdle
    /\ RouteIdle
    /\ PromptIdle
    /\ runs = <<>>

\* Lines 40-46: the two-message prompt.
BuildPrompt ==
    /\ UNCHANGED ask_vars
    /\ UNCHANGED prompt_vars
    /\ UNCHANGED runs
    /\ UNCHANGED route_vars
    /\ UNCHANGED adapter_vars
    /\ pc = "START"
    /\ payload' = [model |-> "mistral",
                   messages |-> <<[role |-> "system", content |-> settings.system_prompt],
                                  [role |-> "user", content |-> query]>>]
    /\ pc' = "PROMPTING"
    /\ UNCHANGED <<query, settings, model_posts, tool_posts, resp, raw, valid_chunks,
                   invalid_chunks, assistant_json_str, tool, args, tool_request,
                   tool_resp, result, raised, error_span>>

\* Called with a retry: a failed model call is attempted again.
CalledWithRetry(o, e) ==
    IF e.cls = ""
    THEN /\ raw' = o.text
         /\ pc' = "MODEL_CALLED"
         /\ UNCHANGED <<raised, error_span>>
    ELSE /\ pc' = "PROMPTING"
         /\ UNCHANGED <<raw, raised, error_span>>

\* The model call's outcome taken into the state: e is what the try block raised.
Called(o, e) ==
    IF e.cls = ""
    THEN /\ raw' = o.text
         /\ pc' = "MODEL_CALLED"
         /\ UNCHANGED <<raised, error_span>>
    ELSE /\ raised' = ollama_except(e, settings)
         /\ error_span' = "agent.ollama_request"
         /\ pc' = "FAILED"
         /\ UNCHANGED raw

\* Lines 58-81: the POST to the model endpoint and its except clauses.
ModelCall ==
    /\ UNCHANGED ask_vars
    /\ UNCHANGED prompt_vars
    /\ UNCHANGED runs
    /\ UNCHANGED route_vars
    /\ UNCHANGED adapter_vars
    /\ pc = "PROMPTING"
    /\ \E o \in ModelOutcomes :
          /\ model_posts' = model_posts + 1
          /\ resp' = o
          /\ Called(o, ollama_body(o))
    /\ UNCHANGED <<query, settings, payload, tool_posts, valid_chunks, invalid_chunks,
                   assistant_json_str, tool, args, tool_request, tool_resp, result>>

\* The assembler's outcome r taken into the state.
Assembled(r) ==
    /\ valid_chunks' = r.valid_chunks
    /\ invalid_chunks' = r.invalid_chunks
    /\ assistant_json_str' = r.assistant_json_str
    /\ raised' = r.exc
    /\ error_span' = IF r.exc.cls = "" THEN "" ELSE "agent.process_response"
    /\ pc' = IF r.exc.cls = "" THEN "ASSEMBLED" ELSE "FAILED"

\* Lines 84-115: the response assembler.
ProcessResponse ==
    /\ UNCHANGED ask_vars
    /\ UNCHANGED prompt_vars
    /\ UNCHANGED runs
    /\ UNCHANGED route_vars
    /\ UNCHANGED adapter_vars
    /\ pc = "MODEL_CALLED"
    /\ Assembled(process_response(raw))
    /\ UNCHANGED <<query, settings, payload, model_posts, tool_posts, resp, raw, tool,
                   args, tool_request, tool_resp, result>>

\* The parser's outcome r taken into the state.
Parsed(r) ==
    /\ tool' = r.ins.tool
    /\ args' = r.ins.args
    /\ raised' = r.exc
    /\ error_span' = IF r.exc.cls = "" THEN "" ELSE "agent.parse_tool"
    /\ pc' = IF r.exc.cls = "" THEN "PARSED" ELSE "FAILED"

\* Lines 118-154: the instruction parser.
ParseTool ==
    /\ UNCHANGED ask_vars
    /\ UNCHANGED prompt_vars
    /\ UNCHANGED runs
    /\ UNCHANGED route_vars
    /\ UNCHANGED adapter_vars
    /\ pc = "ASSEMBLED"
    /\ Parsed(parse_tool(assistant_json_str))
    /\ UNCHANGED <<query, settings, payload, model_posts, tool_posts, resp, raw,
                   valid_chunks, invalid_chunks, assistant_json_str, tool_request,
                   tool_resp, result>>

\* Lines 157-172: the tool path, the url and the POST to the tool endpoint.
DispatchTool ==
    /\ UNCHANGED ask_vars
    /\ UNCHANGED prompt_vars
    /\ UNCHANGED runs
    /\ UNCHANGED route_vars
    /\ UNCHANGED adapter_vars
    /\ pc = "PARSED"
    /\ tool_request' = [url |-> tool_url(settings, tool.v), json |-> args]
    /\ tool_posts' = tool_posts + 1
    /\ \E o \in ToolOutcomes : tool_resp' = o
    /\ pc' = "DISPATCHED"
    /\ UNCHANGED <<query, settings, payload, model_posts, resp, raw, valid_chunks,
                   invalid_chunks, assistant_json_str, tool, args, result, raised,
                   error_span>>

\* The dispatcher's outcome r taken into the state.
Returned(r) ==
    /\ result' = r.result
    /\ raised' = r.exc
    /\ error_span' = IF r.exc.cls = "" THEN "" ELSE "agent.dispatch_tool"
    /\ pc' = IF r.exc.cls = "" THEN "DONE" ELSE "FAILED"

\* Lines 174-216: the tool's answer is returned, or its failure raised.
ReturnResult ==
    /\ UNCHANGED ask_vars
    /\ UNCHANGED prompt_vars
    /\ UNCHANGED runs
    /\ UNCHANGED route_vars
    /\ UNCHANGED adapter_vars
    /\ pc = "DISPATCHED"
    /\ Returned(dispatch_tool(tool_resp, tool.v))
    /\ UNCHANGED <<query, settings, payload, model_posts, tool_posts, resp, raw,
                   valid_chunks, invalid_chunks, assistant_json_str, tool, args,
                   tool_request, tool_resp>>

\* What ask_llm gave, r, taken into the state.
AskAnswered(r) ==
    /\ ask_response' = r.response
    /\ ask_raised' = r.exc

\* router.py lines 115-174: run_agent has ended and ask_llm answers.
AskReturn ==
    /\ pc \in {"DONE", "FAILED"}
    /\ ask_response.status_code = 0
    /\ ask_raised = NoExc
    /\ AskAnswered(ask_llm(raised, result))
    /\ UNCHANGED adapter_vars
    /\ UNCHANGED route_vars
    /\ UNCHANGED prompt_vars
    /\ UNCHANGED runs
    /\ UNCHANGED <<pc, query, settings, payload, model_posts, tool_posts, resp, raw,
                   valid_chunks, invalid_chunks, assistant_json_str, tool, args,
                   tool_request, tool_resp, result, raised, error_span>>

Next ==
    \/ BuildPrompt
    \/ ModelCall
    \/ ProcessResponse
    \/ ParseTool
    \/ DispatchTool
    \/ ReturnResult
    \/ AskReturn

Spec == Init /\ [][Next]_vars

Stages ==
    {"START", "PROMPTING", "MODEL_CALLED", "ASSEMBLED", "PARSED", "DISPATCHED",
     "DONE", "FAILED"}

\* A step of the coroutine: run_agent leaves the stage it is in.
StageLeft ==
    /\ pc \notin {"DONE", "FAILED"}
    /\ pc' \in Stages
    /\ pc' # pc

\* The event loop resumes the coroutine whenever it can go on, and each POST
\* is made with timeout=30.0 (lines 60 and 172), so it answers or raises: a
\* step out of a stage that is possible is not put off forever.
SpecLive == Init /\ [][Next]_vars /\ WF_pc(StageLeft)

\* test_router.py: ask_llm around a patched run_agent, which returns one of
\* MockReturnValues or raises one of MockSideEffects.
InitAsk ==
    /\ query \in Queries
    /\ settings \in Configs
    /\ payload = NoPayload
    /\ model_posts = 0
    /\ tool_posts = 0
    /\ resp = NoResponse
    /\ raw = <<>>
    /\ valid_chunks = 0
    /\ invalid_chunks = 0
    /\ assistant_json_str = <<>>
    /\ tool = JNone
    /\ args = JNone
    /\ tool_request = NoRequest
    /\ tool_resp = NoResponse
    /\ error_span = ""
    /\ \/ pc = "DONE" /\ result \in MockReturnValues /\ raised = NoExc
       \/ pc = "FAILED" /\ result = JNone /\ raised \in MockSideEffects
    /\ ask_response = AskRaised(NoExc).response
    /\ ask_raised = NoExc
    /\ AdapterIdle
    /\ RouteIdle
    /\ PromptIdle
    /\ runs = <<>>

NextAsk == AskReturn

SpecAsk == InitAsk /\ [][NextAsk]_vars

\* test_adapters.py: handle_request of one adapter called with a dict.
InitAdapter ==
    /\ pc = "START"
    /\ query \in Queries
    /\ settings \in Configs
    /\ payload = NoPayload
    /\ model_posts = 0
    /\ tool_posts = 0
    /\ resp = NoResponse
    /\ raw = <<>>
    /\ valid_chunks = 0
    /\ invalid_chunks = 0
    /\ assistant_json_str = <<>>
    /\ tool = JNone
    /\ args = JNone
    /\ tool_request = NoRequest
    /\ tool_resp = NoResponse
    /\ result = JNone
    /\ raised = NoExc
    /\ error_span = ""
    /\ ask_response = AskRaised(NoExc).response
    /\ ask_raised = NoExc
    /\ adapter \in Adapters
    /\ data \in AdapterData
    /\ adapter_pc = "CALLED"
    /\ upstream_gets = 0
    /\ upstream_request = NoUpstreamRequest
    /\ upstream_resp = NoResponse
    /\ adapter_result = JNone
    /\ adapter_raised = NoExc
    /\ RouteIdle
    /\ PromptIdle
    /\ runs = <<>>

\* The outcome e of the checks taken into the state.
Validated(e) ==
    IF e.cls = ""
    THEN /\ upstream_request' = adapter_request(adapter, settings, post_id_of(data))
         /\ adapter_pc' = "VALIDATED"
         /\ UNCHANGED adapter_raised
    ELSE /\ adapter_raised' = e
         /\ adapter_pc' = "RAISED"
         /\ UNCHANGED upstream_request

\* handle_request lines 16-31: the checks on post_id, then the url.
AdapterValidate ==
    /\ adapter_pc = "CALLED"
    /\ Validated(adapter_validate(post_id_of(data)))
    /\ UNCHANGED <<adapter, data, upstream_gets, upstream_resp, adapter_result>>
    /\ UNCHANGED agent_vars
    /\ UNCHANGED ask_vars
    /\ UNCHANGED prompt_vars
    /\ UNCHANGED runs
    /\ UNCHANGED route_vars

\* The GET to the upstream service.
AdapterGet ==
    /\ adapter_pc = "VALIDATED"
    /\ upstream_gets' = upstream_gets + 1
    /\ \E o \in UpstreamOutcomes : upstream_resp' = o
    /\ adapter_pc' = "FETCHED"
    /\ UNCHANGED <<adapter, data, upstream_request, adapter_result, adapter_raised>>
    /\ UNCHANGED agent_vars
    /\ UNCHANGED ask_vars
    /\ UNCHANGED prompt_vars
    /\ UNCHANGED runs
    /\ UNCHANGED route_vars

\* The outcome r of the lines after the GET taken into the state.
AdapterEnded(r) ==
    /\ adapter_result' = r.result
    /\ adapter_raised' = r.exc
    /\ adapter_pc' = IF r.exc.cls = "" THEN "RETURNED" ELSE "RAISED"

\* The upstream answer is returned, or its failure raised.
AdapterReturn ==
    /\ adapter_pc = "FETCHED"
    /\ AdapterEnded(adapter_response(adapter, post_id_of(data), upstream_resp))
    /\ UNCHANGED <<adapter, data, upstream_gets, upstream_request, upstream_resp>>
    /\ UNCHANGED agent_vars
    /\ UNCHANGED ask_vars
    /\ UNCHANGED prompt_vars
    /\ UNCHANGED runs
    /\ UNCHANGED route_vars

NextAdapter ==
    \/ AdapterValidate
    \/ AdapterGet
    \/ AdapterReturn

SpecAdapter == InitAdapter /\ [][NextAdapter]_vars

\* A POST of the dispatcher arrives at the server: its path is the normalized
\* tool name, its body the args.
InitRoute ==
    /\ pc = "START"
    /\ query \in Queries
    /\ settings \in RouteConfigs
    /\ payload = NoPayload
    /\ model_posts = 0
    /\ tool_posts = 0
    /\ resp = NoResponse
    /\ raw = <<>>
    /\ valid_chunks = 0
    /\ invalid_chunks = 0
    /\ assistant_json_str = <<>>
    /\ tool = JNone
    /\ args = JNone
    /\ tool_request = NoRequest
    /\ tool_resp = NoResponse
    /\ result = JNone
    /\ raised = NoExc
    /\ error_span = ""
    /\ ask_response = AskRaised(NoExc).response
    /\ ask_raised = NoExc
    /\ AdapterIdle
    /\ routes = include_router(settings)
    /\ \E name \in RouteToolNames, body \in RouteBodies :
           http_request = [path |-> <<"/">> \o tool_path(name), json |-> body]
    /\ route_pc = "RECEIVED"
    /\ http_response = NoHttpAnswer
    /\ PromptIdle
    /\ runs = <<>>

\* The endpoint is entered with the validated request v: lines 43-48, the
\* adapter is called with model_dump().
EndpointCalled(name, v) ==
    IF v.ok
    THEN /\ adapter' = name
         /\ data' = v.data
         /\ adapter_pc' = "CALLED"
         /\ route_pc' = "CALLED"
         /\ UNCHANGED http_response
    ELSE /\ http_response' = request_validation_error
         /\ route_pc' = "ANSWERED"
         /\ UNCHANGED <<adapter, data, adapter_pc>>

\* The request is routed: no route answers 404, else the body is validated
\* against the request model of the endpoint and the endpoint entered (the
\* args of a tool never validate as the QueryRequest of /ask, which has no
\* default for its query field).
RouteRequest ==
    /\ route_pc = "RECEIVED"
    /\ IF http_request.path \notin DOMAIN routes \/ routes[http_request.path] = "ask"
       THEN /\ http_response' = IF http_request.path \in DOMAIN routes
                                 THEN request_validation_error
                                 ELSE route_not_found
            /\ route_pc' = "ANSWERED"
            /\ UNCHANGED <<adapter, data, adapter_pc>>
       ELSE \E v \in request_model(http_request.json) :
                EndpointCalled(routes[http_request.path], v)
    /\ UNCHANGED <<routes, http_request, upstream_gets, upstream_request,
                   upstream_resp, adapter_result, adapter_raised>>
    /\ UNCHANGED agent_vars
    /\ UNCHANGED ask_vars
    /\ UNCHANGED prompt_vars
    /\ UNCHANGED runs

\* router.py lines 48-57 and 76-85: the adapter has ended, the endpoint answers.
RouteAnswer ==
    /\ route_pc = "CALLED"
    /\ adapter_pc \in {"RETURNED", "RAISED"}
    /\ http_response' = tool_endpoint_answer(adapter, adapter_result, adapter_raised)
    /\ route_pc' = "ANSWERED"
    /\ UNCHANGED <<routes, http_request>>
    /\ UNCHANGED adapter_vars
    /\ UNCHANGED agent_vars
    /\ UNCHANGED ask_vars
    /\ UNCHANGED prompt_vars
    /\ UNCHANGED runs

NextRoute ==
    \/ RouteRequest
    \/ AdapterValidate
    \/ AdapterGet
    \/ AdapterReturn
    \/ RouteAnswer

SpecRoute == InitRoute /\ [][NextRoute]_vars

\* test_config.py: the property is read with the prompt file in one of its
\* states.
InitPrompt ==
    /\ pc = "START"
    /\ query \in Queries
    /\ settings \in Configs
    /\ payload = NoPayload
    /\ model_posts = 0
    /\ tool_posts = 0
    /\ resp = NoResponse
    /\ raw = <<>>
    /\ valid_chunks = 0
    /\ invalid_chunks = 0
    /\ assistant_json_str = <<>>
    /\ tool = JNone
    /\ args = JNone
    /\ tool_request = NoRequest
    /\ tool_resp = NoResponse
    /\ result = JNone
    /\ raised = NoExc
    /\ error_span = ""
    /\ ask_response = AskRaised(NoExc).response
    /\ ask_raised = NoExc
    /\ AdapterIdle
    /\ RouteIdle
    /\ prompt_file \in PromptFiles
    /\ prompt_pc = "CALLED"
    /\ prompt_text = <<>>
    /\ prompt_raised = NoExc
    /\ runs = <<>>

\* The outcome r of the property taken into the state.
PromptEnded(r) ==
    /\ prompt_text' = r.text
    /\ prompt_raised' = r.exc
    /\ prompt_pc' = IF r.exc.cls = "" THEN "RETURNED" ELSE "RAISED"

\* config.py lines 30-40: Settings.system_prompt is read.
SystemPrompt ==
    /\ prompt_pc = "CALLED"
    /\ PromptEnded(system_prompt(prompt_file))
    /\ UNCHANGED prompt_file
    /\ UNCHANGED agent_vars
    /\ UNCHANGED ask_vars
    /\ UNCHANGED adapter_vars
    /\ UNCHANGED route_vars
    /\ UNCHANGED runs

NextPrompt == SystemPrompt

SpecPrompt == InitPrompt /\ [][NextPrompt]_vars

\* The server handles NumRuns requests at once, each in its own execution
\* of run_agent; the settings are the one module-level object they all read.
InitConcurrent ==
    /\ pc = "START"
    /\ query \in Queries
    /\ settings \in Configs
    /\ payload = NoPayload
    /\ model_posts = 0
    /\ tool_posts = 0
    /\ resp = NoResponse
    /\ raw = <<>>
    /\ valid_chunks = 0
    /\ invalid_chunks = 0
    /\ assistant_json_str = <<>>
    /\ tool = JNone
    /\ args = JNone
    /\ tool_request = NoRequest
    /\ tool_resp = NoResponse
    /\ result = JNone
    /\ raised = NoExc
    /\ error_span = ""
    /\ ask_response = AskRaised(NoExc).response
    /\ ask_raised = NoExc
    /\ AdapterIdle
    /\ RouteIdle
    /\ PromptIdle
    /\ runs \in [1..NumRuns -> {NewRun(q) : q \in Queries}]

\* A step that reads and writes nothing but the settings and the locals of
\* one execution.
RunIdle ==
    /\ UNCHANGED agent_vars
    /\ UNCHANGED ask_vars
    /\ UNCHANGED adapter_vars
    /\ UNCHANGED route_vars
    /\ UNCHANGED prompt_vars

\* One execution goes through a stage that makes no POST.
RunLocalStep ==
    /\ \E i \in DOMAIN runs :
           /\ runs[i].pc \in {"START", "MODEL_CALLED", "ASSEMBLED", "DISPATCHED"}
           /\ runs' = run_step(runs, settings, i, NoResponse)
    /\ RunIdle

\* One execution makes its model call.
RunModelCall ==
    /\ \E i \in DOMAIN runs :
           /\ runs[i].pc = "PROMPTING"
           /\ \E o \in ConcurrentModelOutcomes : runs' = run_step(runs, settings, i, o)
    /\ RunIdle

\* One execution makes its tool call.
RunToolCall ==
    /\ \E i \in DOMAIN runs :
           /\ runs[i].pc = "PARSED"
           /\ \E o \in ConcurrentToolOutcomes : runs' = run_step(runs, settings, i, o)
    /\ RunIdle

NextConcurrent ==
    \/ RunLocalStep
    \/ RunModelCall
    \/ RunToolCall

SpecConcurrent == InitConcurrent /\ [][NextConcurrent]_vars

\* ------------------------------------------------------------ the stages

\* The place of a stage in START -> PROMPTING -> MODEL_CALLED -> ASSEMBLED ->
\* PARSED -> DISPATCHED -> DONE.
StageIndex(stage) ==
    CASE stage = "START" -> 0
      [] stage = "PROMPTING" -> 1
      [] stage = "MODEL_CALLED" -> 2
      [] stage = "ASSEMBLED" -> 3
      [] stage = "PARSED" -> 4
      [] stage = "DISPATCHED" -> 5
      [] stage = "DONE" -> 6
      [] stage = "FAILED" -> 7

Terminal == {"DONE", "FAILED"}

\* The model call was made and gave a response with a success status.
ModelCallSucceeded ==
    model_posts = 1 /\ resp.exc.cls = "" /\ 200 <= resp.status /\ resp.status <= 299

\* The model call was made and failed.
ModelCallFailed ==
    model_posts = 1 /\ (resp.exc.cls # "" \/ resp.status < 200 \/ resp.status > 299)

\* The assembler has run to its end (it gave a string or raised).
AfterAssembly ==
    \/ pc \in {"ASSEMBLED", "PARSED", "DISPATCHED", "DONE"}
    \/ pc = "FAILED" /\ error_span # "agent.ollama_request"

\* The assembler has just run.
AtAssemblyEnd ==
    \/ pc = "ASSEMBLED"
    \/ pc = "FAILED" /\ error_span = "agent.process_response"

\* The parser has run to its end.
AfterParsing ==
    \/ pc \in {"PARSED", "DISPATCHED", "DONE"}
    \/ pc = "FAILED" /\ error_span \in {"agent.parse_tool", "agent.dispatch_tool"}

\* d, what json.loads gave, is an object with a str "tool" and a dict "args".
IsInstructionValue(d) ==
    /\ d.ok
    /\ d.val.t = "dict"
    /\ <<"tool">> \in DOMAIN d.val.v
    /\ <<"args">> \in DOMAIN d.val.v
    /\ d.val.v[<<"tool">>].t = "str"
    /\ d.val.v[<<"args">>].t = "dict"

\* ----------------------------------------------------------------- claims

\* C1: the stages of run_agent happen in the fixed order model call ->
\* response assembly -> instruction parsing -> tool dispatch -> return (each
\* step moves to the next stage or to FAILED, and a finished run moves no
\* more, so no stage is entered twice); the POST to the tool endpoint is made
\* only from the PARSED stage, after the model call returned a success
\* status, the assembled string was non-empty and the instruction passed
\* validation.
C1_StagesInOrder ==
    [][/\ pc' # pc =>
            /\ pc \notin Terminal
            /\ pc' = "FAILED" \/ StageIndex(pc') = StageIndex(pc) + 1
       /\ tool_posts' # tool_posts =>
            /\ pc = "PARSED" /\ pc' = "DISPATCHED"
            /\ ModelCallSucceeded
            /\ assistant_json_str # <<>>
            /\ IsInstructionValue(json_loads(assistant_json_str))]_vars

C1_Witness == pc = "DONE" /\ tool_posts = 1 /\ model_posts = 1

\* C3: the model endpoint receives exactly one POST per run and the tool
\* endpoint at most one; a successful run made exactly two POSTs, and a tool
\* POST is never made before the model POST.
C3_EachCallOnce ==
    /\ model_posts <= 1
    /\ tool_posts <= 1
    /\ pc \notin {"START", "PROMPTING"} => model_posts = 1
    /\ tool_posts = 1 => model_posts = 1
    /\ pc = "DONE" => model_posts + tool_posts = 2

C3_Witness == pc = "FAILED" /\ model_posts = 1 /\ tool_posts = 1

\* C4: when the model call fails (timeout, non-success status, connection
\* error, any other exception) run_agent fails with LLMConnectionError and the
\* tool endpoint receives no call; a timeout gives a message containing
\* 'Timeout connecting to LLM service'.
C4_ModelFailureIsConnectionError ==
    ModelCallFailed =>
        /\ pc = "FAILED"
        /\ raised.cls = "LLMConnectionError"
        /\ tool_posts = 0
        /\ IsInstance(resp.exc, "TimeoutException") =>
               Contains(raised.text, <<"Timeout connecting to LLM service">>)

C4_Witness ==
    /\ ModelCallFailed
    /\ resp.exc.cls = "ConnectTimeout"
    /\ raised.cls = "LLMConnectionError"

\* The error taxonomy of run_agent.
AgentErrors == {"LLMConnectionError", "LLMResponseError", "ToolDispatchError"}

\* C2: every failure of run_agent is one of LLMConnectionError,
\* LLMResponseError, ToolDispatchError, whatever the lines of the model's
\* response are and whatever the tool endpoint does; a run that ends either
\* returned the tool's result or raised one of the three.
C2_OnlyTaxonomyErrors ==
    /\ pc = "FAILED" => raised.cls \in AgentErrors
    /\ pc = "DONE" => raised.cls = ""

\* The text fragment the decoded line d carries at message.content, <<>> when
\* the line carries none (it is not JSON, not an object, has no such path, or
\* holds no text there).
FragmentOf(d) ==
    IF /\ d.ok
       /\ d.val.t = "dict"
       /\ <<"message">> \in DOMAIN d.val.v
       /\ d.val.v[<<"message">>].t = "dict"
       /\ <<"content">> \in DOMAIN d.val.v[<<"message">>].v
       /\ d.val.v[<<"message">>].v[<<"content">>].t = "str"
    THEN d.val.v[<<"message">>].v[<<"content">>].v
    ELSE <<>>

LineFragment(line) == FragmentOf(json_loads(line))

\* The fragments of the lines, in line order.
Fragments(lines) == [i \in 1..Len(lines) |-> LineFragment(lines[i])]

\* The assembled string of the assembler's contract: the fragments
\* concatenated with no separator, then trimmed.
TrimmedConcatenation(lines) == strip(join(Fragments(lines)))

HasFragment(lines) == \E i \in 1..Len(lines) : LineFragment(lines[i]) # <<>>

\* The exception is one that leaves the assembler's loop or join unhandled.
AssemblerCrashed == raised.cls \in {"AttributeError", "TypeError"}

\* C5: for a response with at least one valid message.content fragment the
\* assembled string is the trimmed concatenation of just the fragments, in
\* line order, whatever other lines are interleaved.
C5_AssembledIsTrimmedConcatenation ==
    (AfterAssembly /\ HasFragment(splitlines(raw))) =>
        /\ ~AssemblerCrashed
        /\ assistant_json_str = TrimmedConcatenation(splitlines(raw))

EmptyResponseRaised ==
    /\ pc = "FAILED"
    /\ raised.cls = "LLMResponseError"
    /\ raised.text = <<"LLM returned empty response">>

\* C6: run_agent fails with LLMResponseError 'LLM returned empty response'
\* exactly when the assembled string is empty after trimming (so for an empty
\* body, for a body whose lines are all invalid JSON, for fragments that are
\* all blanks), and then no tool call is made.
C6_EmptyExactlyWhenNothingAssembled ==
    AfterAssembly =>
        /\ EmptyResponseRaised <=> TrimmedConcatenation(splitlines(raw)) = <<>>
        /\ EmptyResponseRaised => tool_posts = 0

\* The decoded line d is JSON without a text fragment at message.content: the
\* path is absent, or the content is the empty string.
NoFragmentAt(d) ==
    /\ d.ok
    /\ \/ d.val.t # "dict"
       \/ <<"message">> \notin DOMAIN d.val.v
       \/ d.val.v[<<"message">>].t # "dict"
       \/ <<"content">> \notin DOMAIN d.val.v[<<"message">>].v
       \/ d.val.v[<<"message">>].v[<<"content">>] = JStr(<<>>)

\* The lines without line i.
WithoutLine(lines, i) == SubSeq(lines, 1, i - 1) \o SubSeq(lines, i + 1, Len(lines))

\* The state holds the assembler's outcome r.
SameAssembly(r) == raised = r.exc /\ assistant_json_str = r.assistant_json_str

\* C7: a line that decodes as JSON but has no text fragment at
\* message.content changes nothing: the assembler's outcome (and with it the
\* outcome of run_agent) is its outcome on the response without that line.
C7_LineWithoutFragmentIsIgnored ==
    AtAssemblyEnd =>
        \A i \in 1..Len(splitlines(raw)) :
            NoFragmentAt(json_loads(splitlines(raw)[i])) =>
                SameAssembly(process_response(Body(WithoutLine(splitlines(raw), i))))

\* C8: whenever the POST to the tool endpoint is made the instruction has a
\* non-empty str 'tool' and a dict 'args'; an assembled string that is no
\* such instruction fails with LLMResponseError before any tool call.
C8_DispatchedInstructionIsValid ==
    /\ tool_posts > 0 => tool.t = "str" /\ tool.v # <<>> /\ args.t = "dict"
    /\ (AfterParsing /\ ~IsInstructionValue(json_loads(assistant_json_str))) =>
           pc = "FAILED" /\ raised.cls = "LLMResponseError" /\ tool_posts = 0

MissingTool == <<"Missing 'tool' key in response">>

MissingArgs == <<"Missing 'args' key in response">>

ToolNotStr == <<"Tool must be string, got ">>

ArgsNotDict == <<"Args must be dict, got ">>

DefectTexts == {MissingTool, MissingArgs, ToolNotStr, ArgsNotDict}

\* The message names the defect `text` and none of the other three.
NamesOnly(text) ==
    /\ pc = "FAILED"
    /\ raised.cls = "LLMResponseError"
    /\ Contains(raised.text, text)
    /\ \A other \in DefectTexts \ {text} : ~Contains(raised.text, other)
    /\ tool_posts = 0

\* What C9 asks of an assembled string that decoded to the object js.
NamesTheDefect(js) ==
    /\ <<"tool">> \notin DOMAIN js.v => NamesOnly(MissingTool)
    /\ (<<"tool">> \in DOMAIN js.v /\ <<"args">> \notin DOMAIN js.v) =>
           NamesOnly(MissingArgs)
    /\ (<<"tool">> \in DOMAIN js.v /\ <<"args">> \in DOMAIN js.v) =>
           /\ (js.v[<<"tool">>].t # "str" /\ js.v[<<"args">>].t = "dict") =>
                  NamesOnly(ToolNotStr)
           /\ (js.v[<<"tool">>].t = "str" /\ js.v[<<"args">>].t # "dict") =>
                  NamesOnly(ArgsNotDict)
           /\ (js.v[<<"tool">>].t # "str" /\ js.v[<<"args">>].t # "dict") =>
                  NamesOnly(ToolNotStr) \/ NamesOnly(ArgsNotDict)

ObjectNamesTheDefect(d) == (d.ok /\ d.val.t = "dict") => NamesTheDefect(d.val)

\* C9: an assembled string that is a JSON object missing 'tool' or 'args'
\* fails with LLMResponseError naming the missing key ('tool' when both are
\* missing); each of the four defects (missing tool, missing args, tool not a
\* string, args not an object) gives a message that names it and none of the
\* other three, so the four messages differ pairwise.
C9_MessageNamesTheDefect ==
    AfterParsing => ObjectNamesTheDefect(json_loads(assistant_json_str))

C9_Witness ==
    /\ pc = "FAILED"
    /\ error_span = "agent.parse_tool"
    /\ Contains(raised.text, MissingArgs)

InvalidJsonRaised ==
    /\ pc = "FAILED"
    /\ raised.cls = "LLMResponseError"
    /\ Contains(raised.text, <<"Invalid JSON in LLM response">>)
    /\ ~Contains(raised.text, <<"Invalid response structure">>)
    /\ tool_posts = 0

InvalidStructureRaised ==
    /\ pc = "FAILED"
    /\ raised.cls = "LLMResponseError"
    /\ Contains(raised.text, <<"Invalid response structure">>)
    /\ tool_posts = 0

\* The value holds a NaN, which json.loads decodes from the literal NaN and
\* which no JSON text denotes.
RECURSIVE HasNaN(_)
HasNaN(x) ==
    CASE x.t = "float" -> TRUE
      [] x.t = "list" -> \E i \in 1..Len(x.v) : HasNaN(x.v[i])
      [] x.t = "dict" -> \E k \in DOMAIN x.v : HasNaN(x.v[k])
      [] OTHER -> FALSE

\* d is what json.loads gave for a text that is JSON.
IsJson(d) == d.ok /\ ~HasNaN(d.val)

\* What C10 asks of the assembled string that json.loads decoded to d.
InvalidJsonByValidity(d) ==
    /\ ~IsJson(d) => InvalidJsonRaised
    /\ (IsJson(d) /\ d.val.t # "dict") => InvalidStructureRaised

\* C10: an assembled string that is not valid JSON fails with
\* LLMResponseError 'Invalid JSON in LLM response' (and not 'Invalid response
\* structure'), one that is valid JSON but no object fails with
\* LLMResponseError 'Invalid response structure'; no tool call is made.
C10_InvalidJsonMessage ==
    AfterParsing => InvalidJsonByValidity(json_loads(assistant_json_str))

\* `path` is `name` with every underscore replaced by a hyphen, nothing else
\* changed.
UnderscoresToHyphens(name, path) ==
    /\ Len(path) = Len(name)
    /\ \A i \in 1..Len(name) :
           path[i] = (IF name[i] = "_" THEN "-" ELSE name[i])
    /\ \A i \in 1..Len(path) : path[i] # "_"
    /\ (\A i \in 1..Len(name) : name[i] # "_") => path = name

\* What C11 asks of the normalization of `name`.
NormalizesName(name) ==
    /\ UnderscoresToHyphens(name, tool_path(name))
    /\ tool_path(tool_path(name)) = tool_path(name)
    /\ name = <<"post", "_", "call">> => tool_path(name) = <<"post", "-", "call">>
    /\ name = <<"comments", "_", "call">> =>
           tool_path(name) = <<"comments", "-", "call">>

\* C11: the normalization of the tool name replaces every underscore by a
\* hyphen and changes nothing else (same length, post_call -> post-call,
\* comments_call -> comments-call), leaves no underscore, is the identity on
\* names without underscore, is idempotent, and never fails: every parsed
\* instruction, whatever tool it names, goes on to the POST, whose URL ends
\* with the normalized name.
C11_NormalizationIsTotalAndIdempotent ==
    tool.t = "str" =>
        /\ NormalizesName(tool.v)
        /\ pc = "FAILED" => tool_posts = 1
        /\ tool_posts = 1 =>
               tool_request.url =
                   rstrip_slash(settings.local_api_base) \o <<"/">> \o tool_path(tool.v)

C11_Witness ==
    /\ tool = JStr(<<"a", "_", "b", "_", "c">>)
    /\ tool_posts = 1
    /\ tool_request.url = <<"http://127.0.0.1:8080", "/", "a", "-", "b", "-", "c">>

\* The tool call was made and step 5 has ended.
ToolCallEnded == pc \in Terminal /\ tool_posts = 1

\* The tool endpoint answered with the status `status`.
ToolAnswered(status) == tool_resp.exc.cls = "" /\ tool_resp.status = status

DispatchErrorRaised == pc = "FAILED" /\ raised.cls = "ToolDispatchError"

NotFoundText(tool_name) == <<"Tool '">> \o tool_name \o <<"' not found">>

UnexpectedToolError == <<"Unexpected error calling tool">>

ReturnedHttp == <<"returned HTTP ">>

\* C12: when the tool endpoint answers 404, run_agent fails with
\* ToolDispatchError whose message contains "Tool '<tool>' not found", and
\* the failure is classified neither as an error status ('returned HTTP') nor
\* as an unexpected error ('Unexpected error calling tool').
C12_NotFoundIsItsOwnClass ==
    (ToolCallEnded /\ ToolAnswered(HTTP_NOT_FOUND)) =>
        /\ DispatchErrorRaised
        /\ Contains(raised.text, NotFoundText(tool.v))
        /\ ~Contains(raised.text, ReturnedHttp)
        /\ ~Contains(raised.text, UnexpectedToolError)

\* The status is a success status (2xx).
IsSuccessStatus(status) == status \in 200..299

\* The message of the raised ToolDispatchError holds `detail`.
DispatchErrorWith(detail) == DispatchErrorRaised /\ Contains(raised.text, detail)

\* What C13 asks for the tool endpoint's answer o, whose body decodes to d.
DetailPerCause(o, d) ==
    /\ IsInstance(o.exc, "TimeoutException") =>
           DispatchErrorWith(<<"Timeout calling tool">>)
    /\ (IsInstance(o.exc, "RequestError") /\ ~IsInstance(o.exc, "TimeoutException")) =>
           DispatchErrorWith(<<"Network error calling tool">>)
    /\ (o.exc.cls = "" /\ ~IsSuccessStatus(o.status) /\ o.status # HTTP_NOT_FOUND) =>
           DispatchErrorWith(ReturnedHttp \o str_int(o.status))
    /\ (o.exc.cls = "" /\ IsSuccessStatus(o.status) /\ ~IsJson(d)) =>
           DispatchErrorWith(<<"returned invalid JSON">>)
    /\ pc = "FAILED" => raised.cls = "ToolDispatchError"

\* C13: a failure of the tool call other than 404 makes run_agent fail with
\* ToolDispatchError and a detail per cause: 'returned HTTP <code>' for a
\* non-success status, 'returned invalid JSON' for a body that is not JSON,
\* 'Timeout calling tool' for a timeout, 'Network error calling tool' for a
\* connection failure; none is reported as another kind.
C13_DetailPerCause ==
    ToolCallEnded => DetailPerCause(tool_resp, json_loads(tool_resp.text))

\* C14: the message of every ToolDispatchError run_agent raises holds both
\* the tool name and the path that was attempted.
C14_MessageHasNameAndPath ==
    DispatchErrorRaised =>
        /\ Contains(raised.text, tool.v)
        /\ Contains(raised.text, tool_path(tool.v))

\* ask_llm has answered the request.
AskAnswer == ask_response.status_code # 0

\* The value d.val decoded from the tool's body is the result of run_agent
\* and, once /ask has answered, the 'result' of its answer.
PassedThrough(d) ==
    /\ raised = NoExc
    /\ result = d.val
    /\ AskAnswer =>
           ask_response = [status_code |-> 200,
                           json |-> [result |-> d.val, status |-> "success"]]

\* C15: on success run_agent returns exactly the value decoded from the tool
\* endpoint's body, of any type, and /ask answers {"result": <that value>,
\* "status": "success"} with the value unchanged.
C15_ResultPassedThrough ==
    pc = "DONE" => PassedThrough(json_loads(tool_resp.text))

C15_Witness ==
    /\ pc = "DONE"
    /\ AskAnswer
    /\ tool_resp.text = <<"[", "]">>
    /\ ask_response.json.result = JList(<<>>)

\* The answer is a success answer: 'result' and 'status' and nothing else.
IsSuccessAnswer(body) == DOMAIN body = {"result", "status"} /\ body.status = "success"

\* The answer is an error answer: 'error', 'details', 'error_type', 'status'.
IsErrorAnswer(body) ==
    /\ DOMAIN body = {"error", "details", "error_type", "status"}
    /\ body.status = "error"

\* C16: no exception leaves ask_llm: whatever run_agent returned or raised,
\* the answer has HTTP status 200 and is a success answer (with 'result')
\* exactly when run_agent returned, an error answer (with 'error', 'details'
\* and 'error_type') exactly when it raised, never both and never neither.
C16_AskNeverRaises ==
    /\ ask_raised = NoExc
    /\ AskAnswer =>
           /\ ask_response.status_code = 200
           /\ IF raised = NoExc
              THEN IsSuccessAnswer(ask_response.json)
              ELSE IsErrorAnswer(ask_response.json)

C16_Witness ==
    /\ AskAnswer
    /\ raised.cls = "KeyError"
    /\ ask_response.json.status = "error"

\* The error_type of the taxonomy for an exception of class cls.
ErrorTypeOf(cls) ==
    CASE cls = "LLMConnectionError" -> "llm_connection_error"
      [] cls = "LLMResponseError" -> "llm_response_error"
      [] cls = "ToolDispatchError" -> "tool_dispatch_error"
      [] OTHER -> "internal_error"

\* C17: for every failing request /ask reports one error_type, which is
\* llm_connection_error for LLMConnectionError, llm_response_error for
\* LLMResponseError, tool_dispatch_error for ToolDispatchError and
\* internal_error for anything else run_agent raises; 'agent_error' is never
\* reported.
C17_ErrorTypeIsTheKind ==
    (AskAnswer /\ raised # NoExc) =>
        /\ ask_response.json.error_type = ErrorTypeOf(raised.cls)
        /\ ask_response.json.error_type # "agent_error"

C17_Witness ==
    /\ AskAnswer
    /\ raised.cls = "ToolDispatchError"
    /\ ask_response.json.error_type = "tool_dispatch_error"

\* C18: when run_agent raises an exception that is no agent error, the answer
\* of /ask is one fixed error answer, whatever the exception and its text
\* are: two requests that fail with different unexpected exceptions get the
\* same answer.
C18_InternalErrorIsGeneric ==
    (AskAnswer /\ raised # NoExc /\ ~IsInstance(raised, "AgentError")) =>
        ask_response.json =
            [error |-> "Internal server error",
             details |-> <<"An unexpected error occurred while processing your request">>,
             error_type |-> "internal_error",
             status |-> "error"]

C18_Witness ==
    /\ AskAnswer
    /\ raised = Exc("ValueError", <<"Unexpected error">>, 0)
    /\ ask_response.json.error = "Internal server error"

\* handle_request has ended by raising an exception of class cls whose
\* message holds `text`.
AdapterRaised(cls, text) ==
    /\ adapter_pc = "RAISED"
    /\ adapter_raised.cls = cls
    /\ Contains(adapter_raised.text, text)

\* v is a positive integer. In Python a bool is an int (True is the integer
\* 1, False the integer 0), so True counts as one.
IsPositiveInteger(v) ==
    \/ v.t = "int" /\ v.v > 0
    \/ v.t = "bool" /\ v.v

\* What C19 asks for the post_id `v` of the call (None when absent).
RejectsBeforeGet(v) ==
    /\ v.t = "NoneType" =>
           AdapterRaised("ValueError", <<"post_id is required">>) /\ upstream_gets = 0
    /\ (v.t # "NoneType" /\ ~IsPositiveInteger(v)) =>
           /\ AdapterRaised("ValueError", <<"post_id must be a positive integer">>)
           /\ upstream_gets = 0

\* C19: handle_request of both adapters checks post_id before any network
\* activity: it raises ValueError 'post_id is required' when post_id is
\* absent or None, and ValueError 'post_id must be a positive integer' when
\* post_id is not an integer or is <= 0, and in each such case no GET is
\* made.
C19_AdapterValidatesFirst ==
    adapter_pc # "CALLED" => RejectsBeforeGet(post_id_of(data))

C19_Witness ==
    /\ adapter = "comments"
    /\ data = JDict(<<"post_id">> :> JInt(0 - 1))
    /\ adapter_pc = "RAISED"
    /\ upstream_gets = 0
    /\ Contains(adapter_raised.text, <<"post_id must be a positive integer">>)

\* C20: when the upstream service answers 404 for a valid post_id, the post
\* adapter fails with a ValueError whose message contains 'Post with ID
\* <post_id> not found', not with the RuntimeError of the other failures.
C20_PostNotFoundIsValueError ==
    (/\ adapter = "post"
     /\ adapter_pc \in {"RETURNED", "RAISED"}
     /\ upstream_gets = 1
     /\ upstream_resp.exc.cls = ""
     /\ upstream_resp.status = HTTP_NOT_FOUND) =>
        AdapterRaised("ValueError",
                      <<"Post with ID ">> \o py_format(post_id_of(data)) \o <<" not found">>)

\* The GET was made and handle_request has ended.
AdapterEndedAfterGet == adapter_pc \in {"RETURNED", "RAISED"} /\ upstream_gets = 1

\* What C21 asks when the upstream body decoded to d.
OnlyListsReturned(d) ==
    /\ adapter_pc = "RETURNED" =>
           /\ adapter_result.t = "list"
           /\ d.ok
           /\ adapter_result = d.val
    /\ (/\ upstream_resp.exc.cls = ""
        /\ IsSuccessStatus(upstream_resp.status)
        /\ IsJson(d)) =>
           IF d.val.t = "list"
           THEN adapter_pc = "RETURNED"
           ELSE AdapterRaised("RuntimeError",
                              <<"Expected list of comments, got ", d.val.t>>)

\* C21: the comments adapter returns lists only: every value it returns is
\* the list decoded from the upstream body, unchanged (the empty list
\* included), and an upstream body that is JSON but no list makes it fail
\* with a RuntimeError whose message contains 'Expected list of comments, got
\* <type>'.
C21_CommentsAreAList ==
    (adapter = "comments" /\ AdapterEndedAfterGet) =>
        OnlyListsReturned(json_loads(upstream_resp.text))

C21_Witness ==
    /\ adapter = "comments"
    /\ adapter_pc = "RAISED"
    /\ upstream_resp.text = <<"{", "}">>
    /\ Contains(adapter_raised.text, <<"Expected list of comments, got ", "dict">>)

\* A request to one of the two tool endpoints has been answered.
ToolEndpointAnswered ==
    /\ route_pc = "ANSWERED"
    /\ http_request.path \in DOMAIN routes
    /\ routes[http_request.path] \in Adapters

\* The text s is one or more decimal digits.
IsDigits(s) ==
    /\ Len(s) > 0
    /\ \A i \in 1..Len(s) : \E n \in 1..10 : DigitChars[n] = s[i]

\* The body b carries nothing under post_id that can be read as an integer.
NoIntegerPostId(b) ==
    \/ <<"post_id">> \notin DOMAIN b.v
    \/ b.v[<<"post_id">>].t \in {"NoneType", "list", "dict", "float"}
    \/ b.v[<<"post_id">>].t = "str" /\ ~IsDigits(b.v[<<"post_id">>].v)

\* The three answers of a tool endpoint to the body b.
OneOfThreeAnswers(b) ==
    /\ http_response.status_code \in {422, 200, 500}
    /\ NoIntegerPostId(b) => http_response.status_code = 422
    /\ (<<"post_id">> \in DOMAIN b.v /\ b.v[<<"post_id">>].t = "int") =>
           /\ http_response.status_code # 422
           /\ data = JDict(<<"post_id">> :> b.v[<<"post_id">>])
    /\ http_response.status_code = 422 <=> adapter_pc = "IDLE"
    /\ http_response.status_code = 422 => upstream_gets = 0
    /\ adapter_pc # "IDLE" => post_id_of(data).t = "int"
    /\ http_response.status_code = 200 <=> adapter_pc = "RETURNED"
    /\ http_response.status_code = 200 => http_response.json = adapter_result
    /\ http_response.status_code = 500 <=> adapter_pc = "RAISED"

\* C22: a tool endpoint (/post-call, /comments-call) answers in exactly one
\* of three ways: 422 when the body has no integer post_id, and then the
\* adapter was never invoked (a bool or a text of digits counts as an integer
\* where the request model converts it); 200 with the value the adapter
\* returned, unchanged; 500 when the adapter raised any exception.  It never
\* answers 404: a 404 is answered exactly to a path that is no registered
\* route.
C22_ToolEndpointAnswers ==
    /\ ToolEndpointAnswered => OneOfThreeAnswers(http_request.json)
    /\ route_pc = "ANSWERED" =>
           (http_response.status_code = 404 <=> http_request.path \notin DOMAIN routes)

\* The upstream service answered 404 to the post adapter and the endpoint
\* answered 500.
C22_Witness ==
    /\ ToolEndpointAnswered
    /\ adapter = "post"
    /\ upstream_resp.status = 404
    /\ http_response.status_code = 500
    /\ Contains(http_response.json.v[<<"detail">>].v, <<"Failed to fetch ", "post", ": ">>)

\* The read of Settings.system_prompt has ended.
PromptRead == prompt_pc \in {"RETURNED", "RAISED"}

\* t is s without the white space at its two ends.
IsTrimmed(s, t) ==
    /\ t = <<>> \/ (t[1] \notin Whitespace /\ t[Len(t)] \notin Whitespace)
    /\ \E i \in 0..Len(s) :
           /\ i + Len(t) <= Len(s)
           /\ SubSeq(s, i + 1, i + Len(t)) = t
           /\ \A j \in 1..Len(s) : (j <= i \/ j > i + Len(t)) => s[j] \in Whitespace

\* C23: reading Settings.system_prompt never fails.  When the prompt file is
\* missing or anything goes wrong while it is read, the value is the fixed
\* default text; otherwise it is the content of the file, trimmed.
C23_SystemPromptNeverFails ==
    PromptRead =>
        /\ prompt_pc = "RETURNED"
        /\ prompt_raised = NoExc
        /\ prompt_file.kind # "file" =>
               prompt_text =
                   <<"You are a helpful AI assistant that can fetch posts and comments from JSONPlaceholder API.">>
        /\ prompt_file.kind = "file" => IsTrimmed(prompt_file.text, prompt_text)

\* A file that is there and cannot be decoded gave the default text.
C23_Witness ==
    /\ prompt_pc = "RETURNED"
    /\ prompt_file.kind = "undecodable"
    /\ prompt_text = DEFAULT_PROMPT

\* run_agent has returned, or raised one of the error kinds.
DoneOrFailedKind ==
    \/ pc = "DONE" /\ raised = NoExc
    \/ /\ pc = "FAILED"
       /\ \/ IsInstance(raised, "LLMConnectionError")
          \/ IsInstance(raised, "LLMResponseError")
          \/ IsInstance(raised, "ToolDispatchError")

\* Every execution leaves the intermediate stages: run_agent returns or an
\* exception leaves it.
RunEnds == <>(pc \in Terminal)

OutcomeOf(r) == [result |-> r.result, raised |-> r.raised]

\* The execution r ended as run_agent alone ends with the query and the two
\* answers r had.
EndedAsAlone(r) ==
    r.pc \in Terminal =>
        OutcomeOf(r) = OutcomeOf(run_to_end(settings, NewRun(r.query), r.resp, r.tool_resp))

\* A step changes one execution at most, and neither the settings nor the
\* routes.
OneExecutionWritten ==
    /\ settings' = settings
    /\ routes' = routes
    /\ DOMAIN runs' = DOMAIN runs
    /\ \E i \in DOMAIN runs : \A j \in DOMAIN runs : j # i => runs'[j] = runs[j]

KindTellsStage(d) ==
    /\ result = JNone
    /\ IsInstance(raised, "LLMConnectionError") =>
           /\ model_posts = 1
           /\ ModelCallFailed
           /\ tool_posts = 0
    /\ IsInstance(raised, "LLMResponseError") =>
           /\ model_posts = 1
           /\ ModelCallSucceeded
           /\ tool_posts = 0
    /\ IsInstance(raised, "ToolDispatchError") =>
           /\ ModelCallSucceeded
           /\ IsInstructionValue(d)
           /\ tool = d.val.v[<<"tool">>]
           /\ args = d.val.v[<<"args">>]
           /\ tool_posts = 1

\* C26: the error kind identifies the failed stage.  A connection-kind
\* failure means the model call was attempted (and failed) and no tool call
\* was made; a response-kind failure means the model call succeeded and no
\* tool call was made; a dispatch-kind failure means the instruction was
\* validated and exactly one tool call was attempted.  No failing run returns
\* a result value.
C26_KindIdentifiesStage ==
    pc = "FAILED" => KindTellsStage(json_loads(assistant_json_str))

\* A dispatch-kind failure: the tool answered 200 with what is no JSON.
C26_Witness ==
    /\ pc = "FAILED"
    /\ IsInstance(raised, "ToolDispatchError")
    /\ tool_posts = 1
    /\ tool_resp.status = 200
    /\ Contains(raised.text, <<"returned invalid JSON">>)

\* b is base without the slashes at its end.
WithoutTrailingSlash(base, b) ==
    /\ Len(b) <= Len(base)
    /\ b = SubSeq(base, 1, Len(b))
    /\ \A j \in (Len(b) + 1)..Len(base) : base[j] = "/"
    /\ b = <<>> \/ b[Len(b)] # "/"

\* url is b, one slash, and the name with its underscores made hyphens.
IsToolUrl(url, b, name) ==
    /\ Len(url) = Len(b) + 1 + Len(name)
    /\ SubSeq(url, 1, Len(b)) = b
    /\ url[Len(b) + 1] = "/"
    /\ UnderscoresToHyphens(name, SubSeq(url, Len(b) + 2, Len(url)))

\* What C27 asks of the tool call when the assembled string decoded to d.
ToolCallAsParsed(d) ==
    /\ \E k \in 0..Len(settings.local_api_base) :
           /\ WithoutTrailingSlash(settings.local_api_base,
                                   SubSeq(settings.local_api_base, 1, k))
           /\ IsToolUrl(tool_request.url, SubSeq(settings.local_api_base, 1, k),
                        d.val.v[<<"tool">>].v)
    /\ tool_request.json = d.val.v[<<"args">>]

\* C27: the tool call is a POST to exactly
\* '<local_base without trailing slash>/<normalized tool name>' whose body is
\* the args of the instruction, verbatim; the second message of the model
\* call carries the query verbatim, after the system prompt.
C27_RequestsAreAsBuilt ==
    /\ tool_posts = 1 => ToolCallAsParsed(json_loads(assistant_json_str))
    /\ tool_posts = 0 => tool_request.url = <<>>
    /\ model_posts = 1 =>
           /\ Len(payload.messages) = 2
           /\ payload.messages[1] = [role |-> "system", content |-> settings.system_prompt]
           /\ payload.messages[2] = [role |-> "user", content |-> query]

\* A tool call with a configured base that ends with a slash, a name with
\* an underscore and args that are not empty.
C27_Witness ==
    /\ tool_posts = 1
    /\ settings.local_api_base = <<"http://localhost:8080", "/">>
    /\ tool_request.url = <<"http://localhost:8080", "/", "post", "-", "call">>
    /\ tool_request.json = JDict(<<"post_id">> :> JInt(2))
    /\ payload.messages[2].content = query

\* The tool endpoint turned the request down (its handler rejected the args
\* or failed on them).
HandlerRejected == tool_posts = 1 /\ tool_resp.exc.cls = "" /\ tool_resp.status \in {422, 500}

\* What C28 asks when the assembled string decoded to d.
ArgsGoToTheHandler(d) ==
    IsInstructionValue(d) =>
        /\ pc # "FAILED" \/ error_span # "agent.parse_tool"
        /\ ~IsInstance(raised, "LLMResponseError")
        /\ tool = d.val.v[<<"tool">>]
        /\ args = d.val.v[<<"args">>]
        /\ pc \in {"DISPATCHED", "DONE", "FAILED"} => tool_posts = 1
        /\ (pc = "FAILED" /\ HandlerRejected) => IsInstance(raised, "ToolDispatchError")

\* C28: the parser performs no semantic validation of args.  For every
\* assembled string that is a JSON object with a string 'tool' and an object
\* 'args', whatever args holds (the empty object included), parsing succeeds
\* and exactly one tool call is made; args the handler does not accept
\* surface as a dispatch-kind failure, never as a response-kind one.
C28_ParserDoesNotJudgeArgs ==
    AfterParsing => ArgsGoToTheHandler(json_loads(assistant_json_str))

\* An instruction with empty args went to its handler, which answered 422.
C28_Witness ==
    /\ pc = "FAILED"
    /\ args = JDict(<<>>)
    /\ tool_resp.status = 422
    /\ IsInstance(raised, "ToolDispatchError")
    /\ Contains(raised.text, <<"returned HTTP ", "4", "2", "2">>)
\* ---------------------------------------------------------------- C29

\* The assembler ran to its log line: the loop and the join raised nothing.
CountersEmitted ==
    /\ AfterAssembly
    /\ ~(error_span = "agent.process_response" /\ AssemblerCrashed)

NonBlankLines(lines) == {k \in 1..Len(lines) : strip(lines[k]) # <<>>}

FailedToParse(lines) == {k \in NonBlankLines(lines) : ~json_loads(lines[k]).ok}

\* The counters of the claim for the lines of a body.
CountersClassify(lines, valid, invalid) ==
    /\ invalid = Cardinality(FailedToParse(lines))
    /\ valid = Cardinality(NonBlankLines(lines) \ FailedToParse(lines))
    /\ valid + invalid = Cardinality(NonBlankLines(lines))

\* The assembler started with the counters at v and i.
AssembledCounting(lines, v, i) ==
    assemble(chunk_loop(lines, [contents |-> <<>>, valid_chunks |-> v,
                                invalid_chunks |-> i, raised |-> ""]))

CounterValues == 0..3

\* The assembled string and the exception are those of the state, whatever
\* values the counters are given.
CountersLeaveResult(r) ==
    /\ r.assistant_json_str = assistant_json_str
    /\ (error_span = "agent.process_response") => r.exc = raised
    /\ (error_span # "agent.process_response") => r.exc = NoExc

\* C29: after assembly invalid_chunks is the number of non-blank lines that
\* failed to parse as JSON and valid_chunks the number of the other non-blank
\* lines, so that both add up to the number of non-blank lines; and the
\* assembled string and the outcome are the same whatever the counter values.
C29_CountersClassifyEveryLine ==
    CountersEmitted =>
        /\ CountersClassify(splitlines(raw), valid_chunks, invalid_chunks)
        /\ \A v, i \in CounterValues :
               CountersLeaveResult(AssembledCounting(splitlines(raw), v, i))

\* ---------------------------------------------------------------- C30

\* The tool identifiers the system prompt offers to the model.
CanonicalTools == {<<"post", "_", "call">>, <<"comments", "_", "call">>}

\* The path the dispatcher posts to for the tool name.
NormalizedPath(name) == <<"/">> \o tool_path(name)

\* The normalized name of every canonical tool is the path of a route.
CanonicalToolsRegistered ==
    \A name \in CanonicalTools :
        /\ NormalizedPath(name) \in DOMAIN routes
        /\ routes[NormalizedPath(name)] \in Adapters

\* The answer to the dispatcher's POST for a canonical tool is not the 404
\* it reports as tool-not-found.
CanonicalToolFound ==
    (/\ route_pc = "ANSWERED"
     /\ \E name \in CanonicalTools : http_request.path = NormalizedPath(name))
        => http_response.status_code # HTTP_NOT_FOUND

RoutesStatic == routes' = routes

\* C30: the routes of the router never change while requests are processed,
\* and under every configuration of post_tool_path and comments_tool_path the
\* normalized name of each canonical tool (post_call, comments_call) is the
\* path of a registered tool route, so that a call of a canonical tool is
\* never answered with tool-not-found.
C30_RegistryMatchesNormalization ==
    /\ [](CanonicalToolsRegistered /\ CanonicalToolFound)
    /\ [][RoutesStatic]_vars

====
